---- MODULE Spec2Model ----
(***************************************************************************)
(* Model of the ENM parameter reconciliation scripts.                      *)
(*                                                                         *)
(* data_check_category.py: the value normalizer, the expectation resolver, *)
(* the pattern classifier and matcher (validate_parameter_value and its    *)
(* helpers) and the per-parameter main loop of the data-check run.         *)
(*                                                                         *)
(* A Python str is a sequence of one-character strings, so that strip,     *)
(* split, substring search and the regular expressions of the source are   *)
(* computed as the source computes them.  A spreadsheet cell is a record   *)
(*   [k |-> "none"]              None, an empty openpyxl cell              *)
(*   [k |-> "nan"]               NaN, an empty pandas cell                 *)
(*   [k |-> "bool", s |-> str]   a Python bool, s = str(value)             *)
(*   [k |-> "num",  s |-> str]   an int or float, s = str(value)           *)
(*   [k |-> "str",  s |-> str]   a Python str                              *)
(***************************************************************************)
EXTENDS Integers, Sequences, FiniteSets, TLC

(***************************************************************************)
(* Characters and Python str methods                                       *)
(***************************************************************************)
UpperLetters == <<"A","B","C","D","E","F","G","H","I","J","K","L","M",
                  "N","O","P","Q","R","S","T","U","V","W","X","Y","Z">>

LowerLetters == <<"a","b","c","d","e","f","g","h","i","j","k","l","m",
                  "n","o","p","q","r","s","t","u","v","w","x","y","z">>

Digits == {"0","1","2","3","4","5","6","7","8","9"}

DigitSeq == <<"0","1","2","3","4","5","6","7","8","9">>

\* The whitespace characters str.strip(), str.split() and \s recognise.
Whitespace == {" ", "\t", "\n", "\r"}

IsDigit(c) == c \in Digits

IsSpace(c) == c \in Whitespace

LowerSet == {LowerLetters[i] : i \in 1..26}

UpperSet == {UpperLetters[i] : i \in 1..26}

ToLower == [c \in UpperSet |->
              LowerLetters[CHOOSE i \in 1..26 : UpperLetters[i] = c]]

ToUpper == [c \in LowerSet |->
              UpperLetters[CHOOSE i \in 1..26 : LowerLetters[i] = c]]

IsLowerLetter(c) == c \in LowerSet

LowerChar(c) == IF c \in UpperSet THEN ToLower[c] ELSE c

UpperChar(c) == IF c \in LowerSet THEN ToUpper[c] ELSE c

\* str.lower() and str.upper()
Lower(s) == [i \in 1..Len(s) |-> LowerChar(s[i])]

Upper(s) == [i \in 1..Len(s) |-> UpperChar(s[i])]

\* s[i:] with a 1-based i
Drop(s, i) == SubSeq(s, i, Len(s))

\* str.startswith(p)
StartsWith(s, p) == Len(p) <= Len(s) /\ SubSeq(s, 1, Len(p)) = p

\* s[i:].startswith(p) with a 1-based i
MatchAt(s, i, p) == i + Len(p) - 1 <= Len(s) /\ SubSeq(s, i, i + Len(p) - 1) = p

\* Python's `sub in s`
Contains(s, sub) == \E i \in 1..(Len(s) + 1) : MatchAt(s, i, sub)

\* Python's `c in s` for a single character
HasChar(s, c) == \E i \in 1..Len(s) : s[i] = c

\* The length of the longest run of characters of the set cs that starts at
\* the 1-based position i of s.
RECURSIVE RunLen(_, _, _)
RunLen(s, i, cs) ==
    IF i > Len(s) \/ s[i] \notin cs THEN 0 ELSE 1 + RunLen(s, i + 1, cs)

\* The length of the longest run of characters of cs that ends at position i.
RECURSIVE BackRunLen(_, _, _)
BackRunLen(s, i, cs) ==
    IF i < 1 \/ s[i] \notin cs THEN 0 ELSE 1 + BackRunLen(s, i - 1, cs)

\* The first position at or after i whose character is in cs; Len(s) + 1 if
\* there is none.
RECURSIVE FirstIn(_, _, _)
FirstIn(s, i, cs) ==
    IF i > Len(s) \/ s[i] \in cs THEN i ELSE FirstIn(s, i + 1, cs)

\* str.strip()
Strip(s) ==
    LET a == RunLen(s, 1, Whitespace)
    IN  IF a = Len(s) THEN << >>
        ELSE SubSeq(s, a + 1, Len(s) - BackRunLen(s, Len(s), Whitespace))

\* The pieces of s between the characters of seps, empty pieces included:
\* str.split(sep) and re.split of a character class.
RECURSIVE SplitAt(_, _)
SplitAt(s, seps) ==
    LET p == FirstIn(s, 1, seps)
    IN  IF p > Len(s) THEN << s >>
        ELSE << SubSeq(s, 1, p - 1) >> \o SplitAt(Drop(s, p + 1), seps)

\* str.split(",")
SplitComma(s) == SplitAt(s, {","})

\* str.split(): the maximal runs of non-whitespace characters
SplitWords(s) == SelectSeq(SplitAt(s, Whitespace), LAMBDA w : w # << >>)

\* str.split("=", 1) of a string that contains "=": <<before, after>>
SplitEq1(s) ==
    LET p == FirstIn(s, 1, {"="})
    IN  << SubSeq(s, 1, p - 1), Drop(s, p + 1) >>

\* str(n) of a natural number n
RECURSIVE NatToStr(_)
NatToStr(n) ==
    IF n < 10 THEN << DigitSeq[n + 1] >>
    ELSE NatToStr(n \div 10) \o << DigitSeq[(n % 10) + 1] >>

\* int(s) of a string of decimal digits (0 for the empty string)
RECURSIVE DigitsToNat(_)
DigitsToNat(s) ==
    IF s = << >> THEN 0
    ELSE 10 * DigitsToNat(SubSeq(s, 1, Len(s) - 1))
         + ((CHOOSE i \in 1..10 : DigitSeq[i] = s[Len(s)]) - 1)

RECURSIVE Pow10(_)
Pow10(n) == IF n <= 0 THEN 1 ELSE 10 * Pow10(n - 1)

(***************************************************************************)
(* Python float(): parsing, comparison, is_integer, int                    *)
(*                                                                         *)
(* A parsed float is [ok, k, neg, mant, exp]: ok is FALSE where float()    *)
(* raises ValueError; k is "fin" (the value (-1)^neg * mant * 10^exp),     *)
(* "inf" or "nan".  Values stay far below 2^53, where a double holds them  *)
(* exactly.                                                                *)
(***************************************************************************)
FloatError == [ok |-> FALSE, k |-> "err", neg |-> FALSE, mant |-> 0, exp |-> 0]

\* The literal b[1..m] is the mantissa (d2 digits after the point, digits
\* its digits) and b[e0..] must be the digits of the exponent, negative
\* where eneg.
ParseExponent(b, neg, digits, d2, e0, eneg, ed) ==
    IF ed = 0 \/ e0 + ed - 1 # Len(b) THEN FloatError
    ELSE [ok |-> TRUE, k |-> "fin", neg |-> neg, mant |-> DigitsToNat(digits),
          exp |-> (IF eneg THEN 0 - DigitsToNat(SubSeq(b, e0, Len(b)))
                   ELSE DigitsToNat(SubSeq(b, e0, Len(b)))) - d2]

\* The literal b has d1 digits before the point and d2 after it, and its
\* mantissa ends at b[m].
ParseMantissa(b, neg, d1, d2, m) ==
    IF d1 + d2 = 0 THEN FloatError
    ELSE IF m = Len(b)
    THEN [ok |-> TRUE, k |-> "fin", neg |-> neg,
          mant |-> DigitsToNat(SubSeq(b, 1, d1) \o SubSeq(b, d1 + 2, m)),
          exp |-> 0 - d2]
    ELSE IF b[m + 1] \notin {"e", "E"} THEN FloatError
    ELSE IF m + 2 <= Len(b) /\ b[m + 2] \in {"+", "-"}
    THEN ParseExponent(b, neg, SubSeq(b, 1, d1) \o SubSeq(b, d1 + 2, m), d2,
                       m + 3, b[m + 2] = "-", RunLen(b, m + 3, Digits))
    ELSE ParseExponent(b, neg, SubSeq(b, 1, d1) \o SubSeq(b, d1 + 2, m), d2,
                       m + 2, FALSE, RunLen(b, m + 2, Digits))

\* The literal b, sign removed, has d1 leading digits.
ParsePoint(b, neg, d1) ==
    IF d1 + 1 <= Len(b) /\ b[d1 + 1] = "."
    THEN ParseMantissa(b, neg, d1, RunLen(b, d1 + 2, Digits),
                       d1 + 1 + RunLen(b, d1 + 2, Digits))
    ELSE ParseMantissa(b, neg, d1, 0, d1)

ParseUnsigned(b, neg) ==
    IF Lower(b) \in {<<"i","n","f">>, <<"i","n","f","i","n","i","t","y">>}
    THEN [ok |-> TRUE, k |-> "inf", neg |-> neg, mant |-> 0, exp |-> 0]
    ELSE IF Lower(b) = <<"n","a","n">>
    THEN [ok |-> TRUE, k |-> "nan", neg |-> FALSE, mant |-> 0, exp |-> 0]
    ELSE ParsePoint(b, neg, RunLen(b, 1, Digits))

ParseSigned(t) ==
    IF t # << >> /\ t[1] \in {"+", "-"}
    THEN ParseUnsigned(Drop(t, 2), t[1] = "-")
    ELSE ParseUnsigned(t, FALSE)

\* float(s) of a str
ParseFloat(s) == ParseSigned(Strip(s))

\* a == b on two parsed floats
FloatEq(a, b) ==
    IF a.k = "nan" \/ b.k = "nan" THEN FALSE
    ELSE IF a.k = "inf" \/ b.k = "inf" THEN a.k = b.k /\ a.neg = b.neg
    ELSE IF a.mant = 0 \/ b.mant = 0 THEN a.mant = b.mant
    ELSE LET m == IF a.exp < b.exp THEN a.exp ELSE b.exp
         IN  /\ a.neg = b.neg
             /\ a.mant * Pow10(a.exp - m) = b.mant * Pow10(b.exp - m)

\* float.is_integer()
FloatIsInteger(f) ==
    /\ f.k = "fin"
    /\ \/ f.mant = 0
       \/ f.exp >= 0
       \/ f.mant % Pow10(0 - f.exp) = 0

\* str(int(f)) of a float with an integer value
FloatIntStr(f) ==
    LET n == IF f.exp >= 0 THEN f.mant * Pow10(f.exp)
             ELSE f.mant \div Pow10(0 - f.exp)
    IN  IF f.neg /\ n # 0 THEN << "-" >> \o NatToStr(n) ELSE NatToStr(n)

(***************************************************************************)
(* Cell values                                                             *)
(***************************************************************************)
NoneV == [k |-> "none", s |-> << >>]

NaNV == [k |-> "nan", s |-> << >>]

StrV(s) == [k |-> "str", s |-> s]

NumV(s) == [k |-> "num", s |-> s]

BoolV(b) == [k |-> "bool",
             s |-> IF b THEN <<"T","r","u","e">> ELSE <<"F","a","l","s","e">>]

\* pd.isna(v)
IsNaN(v) == v.k \in {"none", "nan"}

\* v == ""
IsEmptyStr(v) == v.k = "str" /\ v.s = << >>

\* str(v)
PyStr(v) ==
    CASE v.k = "none" -> <<"N","o","n","e">>
      [] v.k = "nan"  -> <<"n","a","n">>
      [] OTHER        -> v.s

\* bool(v), the truth value `or` and `if` test
Truthy(v) ==
    CASE v.k = "none" -> FALSE
      [] v.k = "nan"  -> TRUE
      [] v.k = "bool" -> v = BoolV(TRUE)
      [] v.k = "num"  -> LET f == ParseFloat(v.s) IN ~(f.k = "fin" /\ f.mant = 0)
      [] OTHER        -> v.s # << >>

\* a or b
PyOr(a, b) == IF Truthy(a) THEN a ELSE b

(***************************************************************************)
(* Value normalizer                                                        *)
(***************************************************************************)
TrueStr == <<"t","r","u","e">>

FalseStr == <<"f","a","l","s","e">>

\* na_values of is_na_value
na_values ==
    { <<"n","/","a">>, <<"n","u","l","l">>, <<"n","o","n","e">>,
      <<"n","a","n">>, <<"e","m","p","t","y">>, <<"v","i","d","e">>,
      <<"-">>, <<"r","e","a","d","-","o","n","l","y">> }

\* is_na_value without .lower(): the markers in lower case only.
is_na_value_case_sensitive(value) ==
    IF IsNaN(value) \/ IsEmptyStr(value) THEN TRUE
    ELSE Strip(PyStr(value)) \in na_values

is_na_value(value) ==
    IF IsNaN(value) \/ IsEmptyStr(value) THEN TRUE
    ELSE Lower(Strip(PyStr(value))) \in na_values

\* Returns NoneV or a StrV.
normalize_actual_value(actual_value) ==
    IF IsNaN(actual_value) \/ IsEmptyStr(actual_value) THEN NoneV
    ELSE IF actual_value.k = "bool"
    THEN StrV(IF actual_value = BoolV(TRUE) THEN TrueStr ELSE FalseStr)
    ELSE LET value_str == Strip(PyStr(actual_value))
             float_val == ParseFloat(value_str)
         IN  IF Upper(value_str) \in {<<"V","R","A","I">>, <<"T","R","U","E">>}
             THEN StrV(TrueStr)
             ELSE IF Upper(value_str) \in {<<"F","A","U","X">>,
                                           <<"F","A","L","S","E">>}
             THEN StrV(FalseStr)
             ELSE IF HasChar(value_str, ".") /\ float_val.ok
                     /\ FloatIsInteger(float_val)
             THEN StrV(FloatIntStr(float_val))
             ELSE StrV(value_str)

\* Returns NoneV or a StrV.
normalize_boolean_value(value) ==
    IF IsNaN(value) \/ IsEmptyStr(value) THEN NoneV
    ELSE LET value_str == Lower(Strip(PyStr(value)))
         IN  IF value_str \in {TrueStr, <<"1">>, <<"y","e","s">>,
                               <<"o","u","i">>, <<"o","n">>, <<"v","r","a","i">>}
             THEN StrV(TrueStr)
             ELSE IF value_str \in {FalseStr, <<"0">>, <<"n","o">>,
                                    <<"n","o","n">>, <<"o","f","f">>,
                                    <<"f","a","u","x">>}
             THEN StrV(FalseStr)
             ELSE StrV(value_str)

\* The first piece of re.split(r'[\s=]', value_str) that is not blank;
\* value_str itself when every piece is blank.
FirstPart(parts, value_str) ==
    IF \A i \in 1..Len(parts) : Strip(parts[i]) = << >>
    THEN value_str
    ELSE Strip(parts[CHOOSE i \in 1..Len(parts) :
                        /\ Strip(parts[i]) # << >>
                        /\ \A j \in 1..(i - 1) : Strip(parts[j]) = << >>])

\* Returns NoneV or a StrV.
extract_main_value(value) ==
    IF IsNaN(value) \/ IsEmptyStr(value) \/ is_na_value(value) THEN NoneV
    ELSE LET value_str == Strip(PyStr(value))
         IN  IF HasChar(value_str, " ") \/ HasChar(value_str, "=")
             THEN StrV(FirstPart(SplitAt(value_str, Whitespace \cup {"="}),
                                 value_str))
             ELSE StrV(value_str)

(***************************************************************************)
(* Fuzzy key matching and key=value search                                 *)
(***************************************************************************)
\* prefixes of normalize_parameter_key, in the order the loop tries them
prefixes ==
    << <<"v","s","d","a","t","a">>, <<"v","s">>, <<"d","a","t","a">>, <<"n","r">>, <<"l","t","e">>, <<"c","e","l","l">>, <<"p","a","r","a","m">>,
       <<"p","a","r","a","m","e","t","e","r">>, <<"e","u","t","r","a","n">>, <<"g","e","r","a","n">>, <<"u","r","a","n">>, <<"w","c","d","m","a">>, <<"g","s","m">>,
       <<"u","m","t","s">>, <<"h","s","p","a">> >>

\* key is a str; the first prefix of the list that key_str starts with is
\* removed, and only that one (the loop breaks).
normalize_parameter_key(key) ==
    LET key_str == Lower(Strip(key))
        hits    == {i \in 1..Len(prefixes) : StartsWith(key_str, prefixes[i])}
    IN  IF hits = {} THEN Strip(key_str)
        ELSE LET first == CHOOSE i \in hits : \A j \in hits : i <= j
             IN  Strip(Drop(key_str, Len(prefixes[first]) + 1))

\* set(re.findall(r'[a-z]+', s)): the maximal runs of lowercase letters
WordSet(s) ==
    { SubSeq(s, i, i + RunLen(s, i, LowerSet) - 1) : i \in
        { i \in 1..Len(s) :
            /\ IsLowerLetter(s[i])
            /\ (i = 1 \/ ~IsLowerLetter(s[i - 1])) } }

MinOf(a, b) == IF a <= b THEN a ELSE b

\* fuzzy_key_match without the test `actual_clean in expected_clean`.
fuzzy_key_match_one_way(expected_key, actual_key) ==
    LET expected_clean == normalize_parameter_key(expected_key)
        actual_clean   == normalize_parameter_key(actual_key)
        expected_words == WordSet(expected_clean)
        actual_words   == WordSet(actual_clean)
        common_words   == expected_words \cap actual_words
    IN  \/ expected_clean = actual_clean
        \/ Contains(actual_clean, expected_clean)
        \/ /\ expected_words # {}
           /\ actual_words # {}
           /\ Cardinality(common_words)
                >= MinOf(Cardinality(expected_words), Cardinality(actual_words))

fuzzy_key_match(expected_key, actual_key) ==
    LET expected_clean == normalize_parameter_key(expected_key)
        actual_clean   == normalize_parameter_key(actual_key)
        expected_words == WordSet(expected_clean)
        actual_words   == WordSet(actual_clean)
        common_words   == expected_words \cap actual_words
    IN  \/ expected_clean = actual_clean
        \/ Contains(actual_clean, expected_clean)
        \/ Contains(expected_clean, actual_clean)
        \/ /\ expected_words # {}
           /\ actual_words # {}
           /\ Cardinality(common_words)
                >= MinOf(Cardinality(expected_words), Cardinality(actual_words))

\* The dict parse_key_value_pairs builds, as the set of its <<key, value>>
\* items: a key written twice keeps the value written last.
parse_key_value_pairs(value_str) ==
    LET segs  == SplitComma(value_str)
        pair  == [i \in 1..Len(segs) |-> Strip(segs[i])]
        isKV  == [i \in 1..Len(segs) |-> HasChar(pair[i], "=")]
        key   == [i \in 1..Len(segs) |->
                    IF isKV[i] THEN Strip(SplitEq1(pair[i])[1]) ELSE << >>]
        val   == [i \in 1..Len(segs) |->
                    IF isKV[i] THEN Strip(SplitEq1(pair[i])[2]) ELSE << >>]
    IN  { <<key[i], val[i]>> : i \in
            { i \in 1..Len(segs) :
                /\ isKV[i]
                /\ \A j \in (i + 1)..Len(segs) : ~(isKV[j] /\ key[j] = key[i]) } }

\* search_key is a str; search_value and long_string are values (a NoneV
\* search_value prints as "None" in the f-string and equals no str).
find_key_value_in_string(search_key, search_value, long_string) ==
    IF IsNaN(long_string) \/ IsEmptyStr(long_string) THEN FALSE
    ELSE LET long_str      == Strip(PyStr(long_string))
             expected_pair == search_key \o <<"=">> \o PyStr(search_value)
             parts         == SplitComma(long_str)
         IN  IF HasChar(long_str, "=") /\ HasChar(long_str, ",")
             THEN \E kv \in parse_key_value_pairs(long_str) :
                     /\ fuzzy_key_match(search_key, kv[1])
                     /\ StrV(kv[2]) = search_value
             ELSE \/ Contains(long_str, expected_pair)
                  \/ \E i \in 1..Len(parts) :
                        LET part == Strip(parts[i])
                        IN  /\ HasChar(part, "=")
                            /\ fuzzy_key_match(search_key,
                                               Strip(SplitEq1(part)[1]))
                            /\ StrV(Strip(SplitEq1(part)[2])) = search_value

(***************************************************************************)
(* Pattern classifier                                                      *)
(***************************************************************************)
\* re.match(r'^-?\d+\.?\d*$', w) for a token w of str.split()
IsNumberToken(w) ==
    LET b  == IF w # << >> /\ w[1] = "-" THEN Drop(w, 2) ELSE w
        d1 == RunLen(b, 1, Digits)
        d2 == IF d1 + 1 <= Len(b) /\ b[d1 + 1] = "."
              THEN 1 + RunLen(b, d1 + 2, Digits) ELSE 0
    IN  d1 >= 1 /\ d1 + d2 = Len(b)

type_indicators == { <<"e","n"," ","Z","T","D">>, <<"e","n"," ","C","R","Z">>, <<"Z","T","D">>, <<"C","R","Z">>, <<"R","a","n","4">> }

partial_keywords ==
    { <<"e","n","a","b","l","e","d">>, <<"d","i","s","a","b","l","e","d">>, <<"a","c","t","i","v","e">>, <<"i","n","a","c","t","i","v","e">>, <<"o","n">>, <<"o","f","f">>,
      <<"y","e","s">>, <<"n","o">> }

\* lines 398-402: every comma-separated segment holds an "="
IsKeyValuePairs(expected_str) ==
    /\ HasChar(expected_str, ",")
    /\ HasChar(expected_str, "=")
    /\ LET pairs == SplitComma(expected_str)
       IN  \A i \in 1..Len(pairs) : HasChar(Strip(pairs[i]), "=")

\* lines 404-410: the (BYT)/(SFR) suffix form, or a "/" with an operator name
IsOperatorSpecific(expected_str) ==
    \/ Contains(expected_str, <<"(","B","Y","T",")">>) /\ Contains(expected_str, <<"(","S","F","R",")">>)
    \/ /\ HasChar(expected_str, "/")
       /\ \/ Contains(Upper(expected_str), <<"B","Y","T">>)
          \/ Contains(Upper(expected_str), <<"S","F","R">>)

\* lines 412-415
IsNodeSpecific(expected_str) ==
    \E indicator \in type_indicators : Contains(expected_str, indicator)

\* lines 417-422
IsValueWithExplanation(expected_str) ==
    /\ Contains(expected_str, <<" ","="," ">>) \/ HasChar(expected_str, " ")
    /\ Len(SplitWords(expected_str)) >= 2
    /\ LET first_part == SplitWords(expected_str)[1]
       IN  \/ IsNumberToken(first_part)
           \/ Lower(first_part) \in {TrueStr, FalseStr}

\* lines 424-426
IsSingleKeyValue(expected_str) ==
    HasChar(expected_str, "=") /\ ~HasChar(expected_str, ",")

\* lines 428-430
IsPartialMatch(expected_str) ==
    \E keyword \in partial_keywords : Contains(Lower(expected_str), keyword)

detect_validation_pattern(expected_value) ==
    IF IsNaN(expected_value) \/ is_na_value(expected_value)
    THEN "no_expected_value"
    ELSE LET expected_str == Strip(PyStr(expected_value))
         IN  IF IsKeyValuePairs(expected_str) THEN "key_value_pairs"
             ELSE IF IsOperatorSpecific(expected_str) THEN "operator_specific"
             ELSE IF IsNodeSpecific(expected_str) THEN "node_specific"
             ELSE IF IsValueWithExplanation(expected_str)
             THEN "value_with_explanation"
             ELSE IF IsSingleKeyValue(expected_str) THEN "single_key_value"
             ELSE IF IsPartialMatch(expected_str) THEN "partial_match"
             ELSE "exact_match"

(***************************************************************************)
(* Pattern-specific validators                                             *)
(***************************************************************************)
\* re.search(r'=(\d+)\s*\(TAG\)', s) with tag = "(TAG)": [found, val], val
\* being group(1) of the leftmost match.
SearchTaggedNumber(s, tag) ==
    LET hits == { i \in 1..Len(s) :
                    /\ s[i] = "="
                    /\ RunLen(s, i + 1, Digits) >= 1
                    /\ LET d == RunLen(s, i + 1, Digits)
                           w == RunLen(s, i + 1 + d, Whitespace)
                       IN  MatchAt(s, i + 1 + d + w, tag) }
    IN  IF hits = {} THEN [found |-> FALSE, val |-> << >>]
        ELSE LET i == CHOOSE h \in hits : \A g \in hits : h <= g
             IN  [found |-> TRUE,
                  val   |-> SubSeq(s, i + 1, i + RunLen(s, i + 1, Digits))]

\* operateur is str(operateur)
validate_operator_specific_value(actual_value, expected_value, operateur) ==
    IF IsNaN(actual_value) \/ IsNaN(expected_value) THEN FALSE
    ELSE LET actual_normalized == normalize_actual_value(actual_value)
             expected_str      == Strip(PyStr(expected_value))
             byt_match         == SearchTaggedNumber(expected_str, <<"(","B","Y","T",")">>)
             sfr_match         == SearchTaggedNumber(expected_str, <<"(","S","F","R",")">>)
             expected_main     ==
                 IF Contains(Upper(operateur), <<"B","Y","T">>) THEN byt_match.val
                 ELSE IF Contains(Upper(operateur), <<"S","F","R">>) THEN sfr_match.val
                 ELSE byt_match.val
         IN  /\ Contains(expected_str, <<"(","B","Y","T",")">>)
             /\ Contains(expected_str, <<"(","S","F","R",")">>)
             /\ byt_match.found
             /\ sfr_match.found
             /\ actual_normalized = StrV(expected_main)

\* remarque is str(remarque)
validate_type_specific_value(actual_value, expected_value, remarque) ==
    IF IsNaN(actual_value) \/ IsNaN(expected_value) THEN FALSE
    ELSE LET actual_str   == Strip(PyStr(actual_value))
             expected_str == Strip(PyStr(expected_value))
             main_value   == extract_main_value(expected_value)
         IN  IF ~Truthy(main_value) THEN FALSE
             ELSE IF \/ /\ Contains(expected_str, <<"e","n"," ","Z","T","D">>)
                        /\ Contains(remarque, <<"Z","T","D">>)
                     \/ /\ Contains(expected_str, <<"e","n"," ","C","R","Z">>)
                        /\ Contains(remarque, <<"C","R","Z">>)
                     \/ /\ Contains(expected_str, <<"Z","T","D">>)
                        /\ Contains(remarque, <<"Z","T","D">>)
                     \/ /\ Contains(expected_str, <<"C","R","Z">>)
                        /\ Contains(remarque, <<"C","R","Z">>)
             THEN StrV(actual_str) = main_value
             ELSE FALSE

\* re.search(r'Profile=(\d+)', s): [found, val]
SearchProfileNumber(s) ==
    LET tag  == <<"P","r","o","f","i","l","e","=">>
        hits == { i \in 1..Len(s) :
                    MatchAt(s, i, tag) /\ RunLen(s, i + Len(tag), Digits) >= 1 }
    IN  IF hits = {} THEN [found |-> FALSE, val |-> << >>]
        ELSE LET i == CHOOSE h \in hits : \A g \in hits : h <= g
             IN  [found |-> TRUE,
                  val   |-> SubSeq(s, i + Len(tag),
                                   i + Len(tag) - 1
                                     + RunLen(s, i + Len(tag), Digits))]

\* Defined by the source and called from nowhere in it.
validate_tdd_fdd_co_node_value(actual_value, expected_co_node_value, cell_type) ==
    IF IsNaN(expected_co_node_value) \/ is_na_value(expected_co_node_value)
    THEN FALSE
    ELSE LET expected_str     == Strip(PyStr(expected_co_node_value))
             actual_str       == Strip(PyStr(actual_value))
             expected_profile == IF cell_type = "TDD" THEN <<"0">> ELSE <<"1">>
             profile_match    == SearchProfileNumber(actual_str)
         IN  /\ Contains(expected_str, <<"P","r","o","f","i","l","e","=">>)
             /\ \/ Contains(actual_str, <<"P","r","o","f","i","l","e","=">> \o expected_profile)
                \/ /\ Contains(actual_str, <<"P","r","o","f","i","l","e","=">>)
                   /\ profile_match.found
                   /\ profile_match.val = expected_profile

(***************************************************************************)
(* apply_special_validation and validate_parameter_value                   *)
(***************************************************************************)
apply_special_validation(expected_value, actual_value, pattern_type, operateur) ==
    IF IsNaN(actual_value) \/ IsNaN(expected_value) \/ is_na_value(expected_value)
    THEN FALSE
    ELSE LET expected_str      == Strip(PyStr(expected_value))
             actual_normalized == normalize_actual_value(actual_value)
         IN  CASE pattern_type = "operator_specific" ->
                    validate_operator_specific_value(actual_value,
                                                     expected_value, operateur)
               [] pattern_type = "value_with_explanation" ->
                    actual_normalized
                      = normalize_actual_value(
                            extract_main_value(StrV(expected_str)))
               [] pattern_type = "key_value_pairs" ->
                    \A kv \in parse_key_value_pairs(expected_str) :
                        find_key_value_in_string(
                            kv[1], normalize_actual_value(StrV(kv[2])),
                            actual_normalized)
               [] pattern_type = "single_key_value" ->
                    /\ HasChar(expected_str, "=")
                    /\ find_key_value_in_string(
                           Strip(SplitEq1(expected_str)[1]),
                           normalize_actual_value(
                               StrV(Strip(SplitEq1(expected_str)[2]))),
                           actual_normalized)
               [] pattern_type = "partial_match" ->
                    Contains(Lower(PyStr(actual_normalized)),
                             Lower(expected_str))
               [] OTHER -> FALSE

\* select_expected_value with the two steps in the other order: the value of
\* the cell type is kept when there is one, and the co-node value is used
\* only where the cell type gave nothing.
select_expected_value_cell_first(expected_tdd_value, expected_fdd_value, expected_default_value, expected_co_node_value, cell_type, node_type) ==
    LET usable(v) == ~IsNaN(v) /\ ~is_na_value(v)
    IN  IF cell_type = "TDD" /\ usable(expected_tdd_value)
        THEN expected_tdd_value
        ELSE IF cell_type = "FDD" /\ usable(expected_fdd_value)
        THEN expected_fdd_value
        ELSE IF usable(expected_default_value)
        THEN expected_default_value
        ELSE IF /\ node_type = StrV(<<"T","D","D","+","F","D","D">>)
                /\ usable(expected_co_node_value)
        THEN expected_co_node_value
        ELSE NoneV

\* Lines 579-618: the expected-value cell the comparison uses, NoneV where
\* expected_value stays None.
select_expected_value(expected_tdd_value, expected_fdd_value, expected_default_value, expected_co_node_value, cell_type, node_type) ==
    LET usable(v) == ~IsNaN(v) /\ ~is_na_value(v)
        by_cell ==
            IF cell_type = "TDD"
            THEN IF usable(expected_tdd_value) THEN expected_tdd_value
                 ELSE IF usable(expected_default_value)
                 THEN expected_default_value
                 ELSE NoneV
            ELSE IF cell_type = "FDD"
            THEN IF usable(expected_fdd_value) THEN expected_fdd_value
                 ELSE IF usable(expected_default_value)
                 THEN expected_default_value
                 ELSE NoneV
            ELSE IF usable(expected_default_value) THEN expected_default_value
                 ELSE NoneV
    IN  IF /\ node_type = StrV(<<"T","D","D","+","F","D","D">>)
           /\ usable(expected_co_node_value)
        THEN expected_co_node_value
        ELSE by_cell

\* Method 4 with the two float() calls outside try/except: the exception
\* reaches the caller of validate_parameter_value in place of a label.
numeric_comparison_unguarded(actual_normalized, expected_normalized) ==
    IF actual_normalized.k # "str" \/ expected_normalized.k # "str"
    THEN "TypeError"
    ELSE IF \/ ~ParseFloat(actual_normalized.s).ok
            \/ ~ParseFloat(expected_normalized.s).ok
    THEN "ValueError"
    ELSE IF FloatEq(ParseFloat(actual_normalized.s),
                    ParseFloat(expected_normalized.s))
    THEN "correct_numeric"
    ELSE "incorrect"

\* Lines 678-686, Method 4: float() of both normalized values inside
\* try/except (ValueError, TypeError); float(None) raises TypeError.
numeric_comparison(actual_normalized, expected_normalized) ==
    LET actual_num   == IF actual_normalized.k = "str"
                        THEN ParseFloat(actual_normalized.s) ELSE FloatError
        expected_num == IF expected_normalized.k = "str"
                        THEN ParseFloat(expected_normalized.s) ELSE FloatError
    IN  IF actual_num.ok /\ expected_num.ok
        THEN IF FloatEq(actual_num, expected_num) THEN "correct_numeric"
             ELSE "incorrect"
        ELSE "incorrect"

\* Lines 664-676, Method 3
all_pairs_found(expected_str, actual_normalized) ==
    /\ HasChar(expected_str, ",")
    /\ HasChar(expected_str, "=")
    /\ \A kv \in parse_key_value_pairs(expected_str) :
          find_key_value_in_string(kv[1], StrV(kv[2]), actual_normalized)

\* Lines 620-692: the label of a non-empty observation against the selected
\* expected value.
match_label(actual_value, expected_value, operateur, remarque) ==
    LET actual_normalized   == normalize_actual_value(actual_value)
        expected_str        == Strip(PyStr(expected_value))
        pattern_type        == detect_validation_pattern(expected_value)
        expected_main       == extract_main_value(expected_value)
        expected_normalized == normalize_actual_value(expected_value)
    IN  IF /\ pattern_type = "operator_specific"
           /\ validate_operator_specific_value(actual_value, expected_value,
                                               operateur)
        THEN "correct_fuzzy"
        ELSE IF /\ pattern_type = "node_specific"
                /\ validate_type_specific_value(actual_value, expected_value,
                                                remarque)
        THEN "correct_fuzzy"
        ELSE IF /\ pattern_type \notin {"exact_match", "no_expected_value"}
                /\ apply_special_validation(expected_value, actual_value,
                                            pattern_type, operateur)
        THEN "correct_fuzzy"
        ELSE IF /\ Truthy(expected_main)
                /\ actual_normalized = normalize_actual_value(expected_main)
        THEN "correct_extracted"
        ELSE IF actual_normalized = expected_normalized
        THEN "correct"
        ELSE IF all_pairs_found(expected_str, actual_normalized)
        THEN "correct_fuzzy"
        ELSE numeric_comparison(actual_normalized, expected_normalized)

\* The test of lines 568-573 without .lower() on the parameter name.
skipped_parameter_case_sensitive(parameter_name) ==
    /\ parameter_name # << >>
    /\ \/ Contains(parameter_name, <<"a","d","m","i","n","i","s","t","r","a","t","i","v","e","s","t","a","t","e">>)
       \/ Contains(parameter_name, <<"n","r","t","a","c">>)

\* Lines 568-573: the parameters no observation is validated for.
skipped_parameter(parameter_name) ==
    /\ parameter_name # << >>
    /\ \/ Contains(Lower(parameter_name), <<"a","d","m","i","n","i","s","t","r","a","t","i","v","e","s","t","a","t","e">>)
       \/ Contains(Lower(parameter_name), <<"n","r","t","a","c">>)

\* parameter_name is a str; operateur and remarque are str(operateur) and
\* str(remarque); node_type is a value, NoneV for None.
validate_parameter_value(actual_value, expected_tdd_value, expected_fdd_value, expected_default_value, expected_co_node_value, cell_type, parameter_name, node_type, operateur, remarque) ==
    LET expected_value ==
            select_expected_value(expected_tdd_value, expected_fdd_value,
                                  expected_default_value,
                                  expected_co_node_value, cell_type, node_type)
    IN  IF skipped_parameter(parameter_name) THEN "skipped"
        ELSE IF IsNaN(actual_value) \/ IsEmptyStr(actual_value)
        THEN "no_data"
        ELSE IF expected_value = NoneV
        THEN "no_expected_value"
        ELSE match_label(actual_value, expected_value, operateur, remarque)

(***************************************************************************)
(* Cell type and node category                                             *)
(***************************************************************************)
\* cellname is a cell value
get_cell_type(cellname) ==
    IF IsNaN(cellname) THEN "unknown"
    ELSE LET cellname_str == Upper(Strip(PyStr(cellname)))
         IN  IF StartsWith(cellname_str, <<"Y">>) THEN "FDD"
             ELSE IF StartsWith(cellname_str, <<"Q">>) THEN "TDD"
             ELSE "unknown"

\* The category fields of a node the table does not hold:
\* nename_categories.get(name, {}) read with .get(field, '').
NoCategory ==
    [Type |-> << >>, Operateur |-> << >>, Cell |-> << >>, Gen |-> << >>,
     Remarque |-> << >>]

\* nename_categories as load_nename_categories builds it: a function from
\* the stripped NeName to its Type, Operateur, Cell, Gen and Remarque.
nename_categories ==
    ( <<"X","1">> :> [Type |-> <<"Z","T","D">>, Operateur |-> <<"B","Y","T">>, Cell |-> <<"T","D","D">>,
                 Gen |-> <<"G","e","n","3">>, Remarque |-> <<"Z","T","D">>] )
    @@ ( <<"G","2">> :> [Type |-> <<"C","R","Z">>, Operateur |-> <<"S","F","R">>,
                    Cell |-> <<"T","D","D"," ","+"," ","F","D","D">>, Gen |-> <<"G","e","n","2">>,
                    Remarque |-> <<"C","R","Z">>] )
    @@ ( <<"E","3">> :> [Type |-> << >>, Operateur |-> <<"S","F","R">>, Cell |-> <<"F","D","D">>,
                    Gen |-> << >>, Remarque |-> << >>] )

\* nename_categories.get(str(nename).strip(), {})
category_of(nename) ==
    IF Strip(PyStr(nename)) \in DOMAIN nename_categories
    THEN nename_categories[Strip(PyStr(nename))]
    ELSE NoCategory

\* Lines 105-134; the result is a StrV, or NoneV for Python's None.  The
\* function ends after `nename_upper = ...` without a return statement, so
\* every path that leaves the `if nename_str in nename_categories` block
\* without returning ends in None.
get_node_type(nename) ==
    IF IsNaN(nename) THEN StrV(<<"u","n","k","n","o","w","n">>)
    ELSE LET nename_str == Strip(PyStr(nename))
         IN  IF nename_str \in DOMAIN nename_categories
             THEN LET category_info == nename_categories[nename_str]
                  IN  IF category_info.Cell \in {<<"T","D","D"," ","+"," ","F","D","D">>, <<"T","D","D","+","F","D","D">>}
                      THEN StrV(<<"T","D","D","+","F","D","D">>)
                      ELSE IF category_info.Type # << >>
                      THEN StrV(category_info.Type)
                      ELSE IF Contains(category_info.Operateur, <<"S","F","R">>)
                      THEN StrV(<<"S","F","R">>)
                      ELSE IF Contains(category_info.Operateur, <<"B","Y","T">>)
                      THEN StrV(<<"B","Y","T">>)
                      ELSE NoneV
             ELSE NoneV

(***************************************************************************)
(* Inputs of validate_parameter_value                                      *)
(***************************************************************************)
\* Cells of the column "Valeur par défaut RBS": empty, NA markers, plain
\* values, booleans, numbers, and one cell of each textual pattern.
DefaultCells ==
    { NoneV, StrV(<<"N","/","A">>), StrV(<<"-">>), StrV(<<"8">>), BoolV(TRUE), BoolV(FALSE),
      NumV(<<"0">>), StrV(<<"8",".","5","0">>), StrV(<<"x"," ","y">>), StrV(<<"e","n","a","b","l","e","d">>),
      StrV(<<"1","4"," ","="," ","1","4","m","s">>),
      StrV(<<"B","W","P","S","e","t","=","1"," ","(","B","Y","T",")"," ","/"," ","=","1","1"," ","(","S","F","R",")">>),
      StrV(<<"A","=","1"," ","(","B","Y","T",")",",","A","=","2"," ","(","S","F","R",")">>),
      StrV(<<"1"," ","(","B","Y","T",")"," ","/"," ","1","1"," ","(","S","F","R",")">>), StrV(<<"A","=","1",",","A","=","2">>),
      StrV(<<"2","0"," ","="," ","2","0","s","l","o","t","s"," ","e","n"," ","Z","T","D">>),
      StrV(<<"P","r","o","f","i","l","e","=","0"," ","(","T","D","D",")"," ","/"," ","P","r","o","f","i","l","e","=","1"," ","(","F","D","D",")">>),
      StrV(<<"E","n","e","r","g","y","E","f","f","i","c","i","e","n","c","y","=","1",",","E","n","e","r","g","y","O","p","t","P","w","r","A","l","l","o","c","=","D","e","f","a","u","l","t">>) }

TddCells == { StrV(<<"N","/","A">>), StrV(<<"9">>) }

FddCells == { StrV(<<"-">>), StrV(<<"7">>) }

CoNodeCells ==
    { NoneV, StrV(<<"N","/","A">>), StrV(<<"P","r","o","f","i","l","e","=","0"," ","(","T","D","D",")"," ","/"," ","P","r","o","f","i","l","e","=","1"," ","(","F","D","D",")">>) }

ParameterNames == { <<"a","d","m","i","n","i","s","t","r","a","t","i","v","e","S","t","a","t","e">>, <<"n","R","T","A","C">>, <<"p","M","a","x">> }

\* Observed values as pandas reads them: NaN, empty, strings, a float.
ActualValues ==
    { NaNV, StrV(<< >>), StrV(<<"8">>), NumV(<<"8",".","0">>), StrV(<<"8",".","5">>),
      StrV(<<"1","4">>), StrV(<<"5">>), StrV(<<"1">>), StrV(<<"1","1">>), StrV(<<"2","0">>),
      StrV(<<"V","R","A","I">>), StrV(<<"x"," ","y">>), StrV(<<"E","n","a","b","l","e","d">>),
      StrV(<<"A","=","2">>),
      StrV(<<"S","u","b","N","e","t","w","o","r","k","=","x",",","v","s","D","a","t","a","P","r","o","f","i","l","e","=","0">>),
      StrV(<<"v","s","D","a","t","a","E","n","e","r","g","y","E","f","f","i","c","i","e","n","c","y","=","1",",","E","n","e","r","g","y","O","p","t","P","w","r","A","l","l","o","c","=","D","e","f","a","u","l","t">>) }

CellTypes == { "TDD", "FDD", "unknown" }

NodeTypes == { StrV(<<"T","D","D","+","F","D","D">>), NoneV }

Operateurs == { <<"B","Y","T">>, <<"S","F","R">>, << >> }

Remarques == { <<"Z","T","D">>, << >> }

Labels ==
    { "skipped", "no_data", "correct", "correct_extracted", "correct_fuzzy",
      "correct_numeric", "no_expected_value", "incorrect" }

(***************************************************************************)
(* Helpers of the main loop                                                *)
(***************************************************************************)
\* Returns the value itself when it is NaN or "", else a StrV.
convert_for_display(value) ==
    IF IsNaN(value) \/ IsEmptyStr(value) THEN value
    ELSE IF value.k = "bool"
    THEN StrV(IF value = BoolV(TRUE) THEN TrueStr ELSE FalseStr)
    ELSE LET value_str == Strip(PyStr(value))
         IN  IF Upper(value_str) \in {<<"V","R","A","I">>, <<"T","R","U","E">>} THEN StrV(TrueStr)
             ELSE IF Upper(value_str) \in {<<"F","A","U","X">>, <<"F","A","L","S","E">>}
             THEN StrV(FalseStr)
             ELSE StrV(value_str)

\* Lines 1021-1039 and 1142-1160; a Python str result is a StrV.
get_display_expected_value(info, ctype, ntype, co_node_value) ==
    LET usable(v) == ~IsNaN(v) /\ ~is_na_value(v)
    IN  IF ntype = StrV(<<"T","D","D","+","F","D","D">>) /\ usable(co_node_value)
        THEN co_node_value
        ELSE IF ctype = "FDD"
        THEN IF usable(info.Fdd) THEN info.Fdd
             ELSE IF usable(info.Default) THEN info.Default
             ELSE PyOr(info.Mid, info.Hig)
        ELSE IF usable(info.Mid) THEN info.Mid
             ELSE IF usable(info.Hig) THEN info.Hig
             ELSE IF usable(info.Default) THEN info.Default
             ELSE StrV(<<"N","o"," ","e","x","p","e","c","t","e","d"," ","v","a","l","u","e">>)

\* The arguments the main loop passes to validate_parameter_value for the
\* observed value v (lines 960-971 and 1081-1092): the TDD argument is
\* `MidBand or HigBand`.
validate_call(v, info, co_node_value, ctype, name, ntype, category) ==
    validate_parameter_value(v, PyOr(info.Mid, info.Hig), info.Fdd,
                             info.Default, co_node_value, ctype, name, ntype,
                             category.Operateur, category.Remarque)

\* The expected_value local of that call.
selected_in_call(info, co_node_value, ctype, ntype) ==
    select_expected_value(PyOr(info.Mid, info.Hig), info.Fdd, info.Default,
                          co_node_value, ctype, ntype)

(***************************************************************************)
(* State                                                                   *)
(***************************************************************************)
VARIABLES
    spec_row,        \* the ParameterSpec of the call: name and expected cells
    observation,     \* the observation of the call and its derived context
    expected_value,  \* local expected_value of validate_parameter_value
    pattern_type,    \* local pattern_type of validate_parameter_value
    result           \* the label validate_parameter_value returned

vvars == << spec_row, observation, expected_value, pattern_type, result >>

NoObservation ==
    [actual_value |-> NoneV, cell_type |-> "unknown", node_type |-> NoneV,
     operateur |-> << >>, remarque |-> << >>]

VARIABLES
    pc,                           \* position in the loop body
    SHEET_NAME,                   \* "NRCellCU" or "NRCellDU"
    param,                        \* the parameter of this iteration
    param_info,                   \* parameter_data[param]
    data_df,                      \* the rows of the data export
    value_cellname_nename_pairs,
    first_value,
    value, cellname, nename,      \* loop variables, shared by both loops
    cell_type, node_type, category_info, expected_co_node_value,
    validation,
    next_index,                   \* index of the pair the second loop takes next
    main_output_data, wrong_parameters_data, missing_data_records,
    validation_stats

rvars == << pc, SHEET_NAME, param, param_info, data_df,
            value_cellname_nename_pairs, first_value, value, cellname, nename,
            cell_type, node_type, category_info, expected_co_node_value,
            validation, next_index, main_output_data, wrong_parameters_data,
            missing_data_records, validation_stats >>

VARIABLES
    raw,               \* the value a normalizer function is applied to
    normalized,        \* normalize_actual_value(raw)
    renormalized,      \* normalize_actual_value(normalized)
    na_result,         \* is_na_value(raw)
    expected_key, actual_key,   \* the arguments of fuzzy_key_match
    key_match,         \* fuzzy_key_match(expected_key, actual_key)
    environment,       \* what the user types and the three files hold
    output_written     \* the output workbook has been saved

xvars == << raw, normalized, renormalized, na_result, expected_key,
            actual_key, key_match, environment, output_written >>

\* Lines 873-900 and 1384-1393: the parameters of the sheet against the
\* columns of the export.
VARIABLES
    opc,                            \* position in the script at hand
    parameters_to_include,          \* the parameters collected from the sheet
    data_columns,                   \* data_df.columns
    available_parameters_in_data, missing_parameters_in_data,
    summary_not_found               \* "PARAMETERS NOT FOUND" of the summary

avars == << parameters_to_include, data_columns,
            available_parameters_in_data, missing_parameters_in_data,
            summary_not_found >>

\* licence.py: the feature of the sheet "Features + Licenses" at hand, the
\* rows of the export with its featureStateId, and the loop over them.
VARIABLES
    feature_info,              \* the feature's activation rule and hardware
    matching_rows,             \* the rows of the export for the feature
    row_number,                \* the row the loop is at (0 before the first)
    node_specific_decisions, general_decisions,
    expected_active,           \* what should_feature_be_active returned
    validation_status,
    output_data, incorrect_data,
    incorrect_entries          \* the sheet "Incorrect_Entries"

lvars == << feature_info, matching_rows, row_number, node_specific_decisions,
            general_decisions, expected_active, validation_status,
            output_data, incorrect_data, incorrect_entries >>

\* NRCELL_Extractor.py: extract_parameters on a LAB file.
VARIABLES
    lab_lines,                 \* the lines of the LAB file
    section_type,              \* the argument cell_type
    line_number,               \* lines the loop has read
    found_section, parameter_names, current_parent_parameter

evars == << lab_lines, section_type, line_number, found_section,
            parameter_names, current_parent_parameter >>

\* compare_parameters.py: the sheet of the OLD workbook, the sheet of the
\* UPDATED one, and the update of the first in place.
VARIABLES
    old_df, new_df,            \* the two sheets as read
    parameters,                \* the parameter list file
    compared,                  \* parameters the comparison has gone through
    differences,
    ws,                        \* the sheet of the OLD workbook, as updated
    ws_row                     \* rows the update has gone through

cvars == << old_df, new_df, parameters, compared, differences, ws, ws_row >>

ovars == << opc, avars, lvars, evars, cvars >>

\* What each of these scripts leaves alone.
beside_availability == << lvars, evars, cvars, vvars, rvars, xvars >>

beside_licence == << avars, evars, cvars, vvars, rvars, xvars >>

beside_extractor == << avars, lvars, cvars, vvars, rvars, xvars >>

beside_compare == << avars, lvars, evars, vvars, rvars, xvars >>

vars == << vvars, rvars, xvars, ovars >>

\* No list of parameters has been collected.
AvailabilityIdle ==
    /\ parameters_to_include = << >>
    /\ data_columns = {}
    /\ available_parameters_in_data = << >>
    /\ missing_parameters_in_data = << >>
    /\ summary_not_found = << >>

\* No feature has been read.
LicenceIdle ==
    /\ feature_info = [activate |-> NoneV, supported |-> NoneV]
    /\ matching_rows = << >>
    /\ row_number = 0
    /\ node_specific_decisions = << >>
    /\ general_decisions = << >>
    /\ expected_active = "unset"
    /\ validation_status = "unset"
    /\ output_data = << >>
    /\ incorrect_data = << >>
    /\ incorrect_entries = [written |-> FALSE, rows |-> << >>]

\* No LAB file has been opened.
ExtractorIdle ==
    /\ lab_lines = << >>
    /\ section_type = << >>
    /\ line_number = 0
    /\ found_section = FALSE
    /\ parameter_names = << >>
    /\ current_parent_parameter = << >>

\* No workbook has been compared.
CompareIdle ==
    /\ old_df = << >>
    /\ new_df = << >>
    /\ parameters = << >>
    /\ compared = 0
    /\ differences = << >>
    /\ ws = << >>
    /\ ws_row = 0

\* The scripts modelled on their own have not started.
OthersIdle ==
    /\ opc = "idle"
    /\ AvailabilityIdle
    /\ LicenceIdle
    /\ ExtractorIdle
    /\ CompareIdle

\* "unset" stands for a result no call has produced yet.
Unset == [k |-> "unset", s |-> << >>]

\* No environment: the state of a call outside a run of the script.
NoEnvironment == [choice |-> "none", failed |-> "none"]

\* The variables of the function calls and of the setup, before any of them.
HelpersIdle ==
    /\ raw = Unset
    /\ normalized = Unset
    /\ renormalized = Unset
    /\ na_result = "unset"
    /\ expected_key = << >>
    /\ actual_key = << >>
    /\ key_match = "unset"
    /\ environment = NoEnvironment
    /\ output_written = FALSE

\* Rows of the export per run
MaxRows == 2

RunValues == { NaNV, StrV(<<"8">>), StrV(<<"5">>) }

RunCellNames == { StrV(<<"Q","1","A">>), StrV(<<"Y","1","S">>) }

RunNeNames == { StrV(<<"X","1">>), StrV(<<"G","2">>) }

\* A row of the export: any cell may be empty (NaN); a row empty in all
\* three columns is left out of the pairs (line 940).
RunRows ==
    [value : RunValues, CellName : RunCellNames, NeName : RunNeNames]
    \cup { [value |-> NaNV, CellName |-> NaNV, NeName |-> NaNV] }

MidCells == { NoneV, NumV(<<"0">>), StrV(<<"8">>) }

HigCells == { NoneV, StrV(<<"7">>) }

RunFddCells == { StrV(<<"5">>) }

RunDefaultCells == { StrV(<<"N","/","A">>), StrV(<<"8">>) }

RunCoNodeCells == { NoneV, StrV(<<"6">>) }

\* "unbound" stands for a Python name no assignment has bound yet.
Unbound == [k |-> "unbound", s |-> << >>]

ZeroStats == [l \in Labels \cup {"correct_special"} |-> 0]

\* The run's variables before the loop body has started.
RunIdle ==
    /\ pc = "idle"
    /\ SHEET_NAME = "NRCellCU"
    /\ param = << >>
    /\ param_info = [Mid |-> NoneV, Hig |-> NoneV, Fdd |-> NoneV,
                     Default |-> NoneV, CoNode |-> NoneV]
    /\ data_df = << >>
    /\ value_cellname_nename_pairs = << >>
    /\ first_value = Unbound
    /\ value = Unbound
    /\ cellname = Unbound
    /\ nename = Unbound
    /\ cell_type = "unbound"
    /\ node_type = Unbound
    /\ category_info = NoCategory
    /\ expected_co_node_value = NoneV
    /\ validation = "unbound"
    /\ next_index = 0
    /\ main_output_data = << >>
    /\ wrong_parameters_data = << >>
    /\ missing_data_records = << >>
    /\ validation_stats = ZeroStats

\* A ParameterSpec is loaded; no observation has been validated yet.
InitValidate ==
    /\ spec_row \in [parameter_name : ParameterNames,
                     expected_tdd_value : TddCells,
                     expected_fdd_value : FddCells,
                     expected_default_value : DefaultCells,
                     expected_co_node_value : CoNodeCells]
    /\ observation = NoObservation
    /\ expected_value = NoneV
    /\ pattern_type = "unset"
    /\ result = "pending"
    /\ RunIdle
    /\ HelpersIdle
    /\ OthersIdle

\* The locals a call of validate_parameter_value leaves behind:
\* expected_value is assigned from line 579 on, after the skipped and
\* no_data returns, and pattern_type at line 629, after the
\* no_expected_value return.
locals_of_call(label, selected) ==
    [expected_value |-> IF label \in {"skipped", "no_data"} THEN NoneV
                        ELSE selected,
     pattern_type   |-> IF label \in {"skipped", "no_data", "no_expected_value"}
                        THEN "unset"
                        ELSE detect_validation_pattern(selected)]

\* One call of validate_parameter_value on an observation.
Validate ==
    /\ result = "pending"
    /\ \E o \in [actual_value : ActualValues, cell_type : CellTypes,
                 node_type : NodeTypes, operateur : Operateurs,
                 remarque : Remarques] :
          LET label ==
                validate_parameter_value(o.actual_value,
                                         spec_row.expected_tdd_value,
                                         spec_row.expected_fdd_value,
                                         spec_row.expected_default_value,
                                         spec_row.expected_co_node_value,
                                         o.cell_type, spec_row.parameter_name,
                                         o.node_type, o.operateur, o.remarque)
              selected ==
                select_expected_value(spec_row.expected_tdd_value,
                                      spec_row.expected_fdd_value,
                                      spec_row.expected_default_value,
                                      spec_row.expected_co_node_value,
                                      o.cell_type, o.node_type)
          IN  \E returned \in {label} :
              \E locals \in {locals_of_call(returned, selected)} :
                  /\ observation' = o
                  /\ result' = returned
                  /\ expected_value' = locals.expected_value
                  /\ pattern_type' = locals.pattern_type
    /\ UNCHANGED spec_row
    /\ UNCHANGED rvars
    /\ UNCHANGED xvars
    /\ UNCHANGED ovars

NextValidate == Validate

SpecValidate == InitValidate /\ [][NextValidate]_vars

(***************************************************************************)
(* The data-check run: the loop body of one parameter (lines 929-1184)     *)
(***************************************************************************)
\* The state the run is in when the loop body starts on parameter name,
\* with an export whose rows are among rows.
RunStart(name, rows) ==
    /\ pc = "collect"
    /\ SHEET_NAME \in {"NRCellCU", "NRCellDU"}
    /\ param = name
    /\ \E mid \in MidCells, hig \in HigCells, fdd \in RunFddCells,
          def \in RunDefaultCells, co \in RunCoNodeCells :
          param_info =
              [Mid |-> mid, Hig |-> hig, Fdd |-> fdd, Default |-> def,
               CoNode |-> IF SHEET_NAME = "NRCellCU" THEN co ELSE NoneV]
    /\ \E n \in 1..MaxRows : data_df \in [1..n -> rows]
    /\ value_cellname_nename_pairs = << >>
    /\ first_value = Unbound
    /\ value = Unbound
    /\ cellname = Unbound
    /\ nename = Unbound
    /\ cell_type = "unbound"
    /\ node_type = Unbound
    /\ category_info = NoCategory
    /\ expected_co_node_value = NoneV
    /\ validation = "unbound"
    /\ next_index = 0
    /\ main_output_data = << >>
    /\ wrong_parameters_data = << >>
    /\ missing_data_records = << >>
    /\ validation_stats = ZeroStats
    /\ spec_row = [parameter_name |-> << >>, expected_tdd_value |-> NoneV,
                   expected_fdd_value |-> NoneV,
                   expected_default_value |-> NoneV,
                   expected_co_node_value |-> NoneV]
    /\ observation = NoObservation
    /\ expected_value = NoneV
    /\ pattern_type = "unset"
    /\ result = "pending"
    /\ HelpersIdle
    /\ OthersIdle

\* The state the run is in when the loop over the parameters starts.
InitRun == RunStart(<<"p","M","a","x">>, RunRows)

\* The rows of an export with the column cellLocalId.
CellLocalIdRows ==
    [value : { NaNV, StrV(<<"5","1">>), StrV(<<"8">>) },
     CellName : RunCellNames, NeName : RunNeNames]

\* The run on the parameter cellLocalId.
InitCellLocalId ==
    RunStart(<<"c","e","l","l","L","o","c","a","l","I","d">>, CellLocalIdRows)

\* The columns every output, wrong and missing row takes from the node's
\* category (category_info.get(field, '')).
category_columns(category) ==
    [Type |-> category.Type, Operateur |-> category.Operateur,
     Cell |-> category.Cell, Gen |-> category.Gen,
     Remarque |-> category.Remarque]

\* The co-node column exists in the NRCellCU report only.
with_co_node(row, sheet, co_node_value) ==
    IF sheet = "NRCellCU" THEN row @@ [CoNode |-> co_node_value] ELSE row

\* Lines 977-991 and 1098-1112
missing_record(name, info, cn, nn, ctype, category) ==
    [Parameter |-> StrV(name), CellName |-> cn, NeName |-> nn,
     CellType |-> ctype, Default |-> info.Default, Mid |-> info.Mid,
     Fdd |-> info.Fdd, Hig |-> info.Hig]
    @@ category_columns(category)

\* output_row with the parameter columns repeated on every row.
output_row_repeating_columns(is_first, name, info, shown, cn, nn, ctype, category, label, sheet, co_node_value) ==
    with_co_node(
        [Parameter |-> StrV(name), Default |-> info.Default,
         Mid |-> info.Mid, Fdd |-> info.Fdd, Hig |-> info.Hig,
         Value |-> shown, CellName |-> cn, NeName |-> nn,
         CellType |-> ctype, Validation |-> label]
        @@ category_columns(category),
        sheet, co_node_value)

\* Lines 994-1014 (the first row carries the parameter columns) and
\* 1115-1135 (later rows leave them "" for merging)
output_row(is_first, name, info, shown, cn, nn, ctype, category, label, sheet, co_node_value) ==
    with_co_node(
        [Parameter |-> IF is_first THEN StrV(name) ELSE StrV(<< >>),
         Default   |-> IF is_first THEN info.Default ELSE StrV(<< >>),
         Mid       |-> IF is_first THEN info.Mid ELSE StrV(<< >>),
         Fdd       |-> IF is_first THEN info.Fdd ELSE StrV(<< >>),
         Hig       |-> IF is_first THEN info.Hig ELSE StrV(<< >>),
         Value     |-> shown, CellName |-> cn, NeName |-> nn,
         CellType  |-> ctype, Validation |-> label]
        @@ category_columns(category),
        sheet, IF is_first THEN co_node_value ELSE StrV(<< >>))

\* Lines 1041-1061 and 1162-1182
wrong_row(name, info, v, cn, nn, ctype, ntype, category, sheet, co_node_value) ==
    with_co_node(
        [Parameter |-> StrV(name), Default |-> info.Default,
         Mid |-> info.Mid, Fdd |-> info.Fdd, Hig |-> info.Hig,
         Actual_Value   |-> convert_for_display(v),
         Expected_Value |-> get_display_expected_value(info, ctype, ntype,
                                                       co_node_value),
         CellName |-> cn, NeName |-> nn, CellType |-> ctype]
        @@ category_columns(category),
        sheet, co_node_value)

\* Lines 933-941: the pairs of this parameter, in the order of the rows; the
\* loop variables keep the last row of the export.
CollectPairs ==
    /\ pc = "collect"
    /\ value_cellname_nename_pairs' =
          SelectSeq(data_df,
                    LAMBDA row : ~IsNaN(row.value) \/ ~IsNaN(row.CellName)
                                 \/ ~IsNaN(row.NeName))
    /\ value' = data_df[Len(data_df)].value
    /\ cellname' = data_df[Len(data_df)].CellName
    /\ nename' = data_df[Len(data_df)].NeName
    /\ pc' = IF value_cellname_nename_pairs' = << >> THEN "done" ELSE "first"
    /\ UNCHANGED << SHEET_NAME, param, param_info, data_df, first_value,
                    cell_type, node_type, category_info,
                    expected_co_node_value, validation, next_index,
                    main_output_data, wrong_parameters_data,
                    missing_data_records, validation_stats, vvars, xvars >>
    /\ UNCHANGED ovars

\* Lines 943-1063: the first pair of the parameter.
FirstValue ==
    /\ pc = "first"
    /\ LET first     == value_cellname_nename_pairs[1]
           ctype     == get_cell_type(first.CellName)
           ntype     == get_node_type(first.NeName)
           category  == category_of(first.NeName)
           co        == IF SHEET_NAME = "NRCellCU" THEN param_info.CoNode
                        ELSE NoneV
           selected  == selected_in_call(param_info, co, ctype, ntype)
       IN  \E label \in {validate_call(first.value, param_info, co, ctype,
                                       param, ntype, category)} :
           \E locals \in {locals_of_call(label, selected)} :
              /\ first_value' = first.value
              /\ cell_type' = ctype
              /\ node_type' = ntype
              /\ category_info' = category
              /\ expected_co_node_value' = co
              /\ validation' = label
              /\ expected_value' = locals.expected_value
              /\ pattern_type' = locals.pattern_type
              /\ validation_stats' =
                    [validation_stats EXCEPT ![label] = @ + 1]
              /\ missing_data_records' =
                    IF label = "no_data"
                    THEN Append(missing_data_records,
                                missing_record(param, param_info,
                                               first.CellName, first.NeName,
                                               ctype, category))
                    ELSE missing_data_records
              /\ main_output_data' =
                    Append(main_output_data,
                           output_row(TRUE, param, param_info,
                                      convert_for_display(first.value),
                                      first.CellName, first.NeName, ctype,
                                      category, label, SHEET_NAME, co))
              /\ wrong_parameters_data' =
                    IF label = "incorrect"
                    THEN Append(wrong_parameters_data,
                                wrong_row(param, param_info, value, cellname,
                                          nename, ctype, ntype, category,
                                          SHEET_NAME, co))
                    ELSE wrong_parameters_data
    /\ next_index' = 2
    /\ pc' = "rest"
    /\ UNCHANGED << SHEET_NAME, param, param_info, data_df,
                    value_cellname_nename_pairs, value, cellname, nename,
                    spec_row, observation, result, xvars >>
    /\ UNCHANGED ovars

\* Lines 1066-1137: one pass of the loop over the later pairs.  The call
\* passes first_value, not the pair's own value (line 1082).
NextValue ==
    /\ pc = "rest"
    /\ next_index <= Len(value_cellname_nename_pairs)
    /\ LET pair      == value_cellname_nename_pairs[next_index]
           ctype     == get_cell_type(pair.CellName)
           ntype     == get_node_type(pair.NeName)
           category  == category_of(pair.NeName)
           co        == IF SHEET_NAME = "NRCellCU" THEN param_info.CoNode
                        ELSE NoneV
           selected  == selected_in_call(param_info, co, ctype, ntype)
       IN  \E label \in {validate_call(first_value, param_info, co, ctype,
                                       param, ntype, category)} :
           \E locals \in {locals_of_call(label, selected)} :
              /\ value' = pair.value
              /\ cellname' = pair.CellName
              /\ nename' = pair.NeName
              /\ cell_type' = ctype
              /\ node_type' = ntype
              /\ category_info' = category
              /\ expected_co_node_value' = co
              /\ validation' = label
              /\ expected_value' = locals.expected_value
              /\ pattern_type' = locals.pattern_type
              /\ validation_stats' =
                    [validation_stats EXCEPT ![label] = @ + 1]
              /\ missing_data_records' =
                    IF label = "no_data"
                    THEN Append(missing_data_records,
                                missing_record(param, param_info,
                                               pair.CellName, pair.NeName,
                                               ctype, category))
                    ELSE missing_data_records
              /\ main_output_data' =
                    Append(main_output_data,
                           output_row(FALSE, param, param_info,
                                      convert_for_display(pair.value),
                                      pair.CellName, pair.NeName, ctype,
                                      category, label, SHEET_NAME, co))
    /\ next_index' = next_index + 1
    /\ UNCHANGED << pc, SHEET_NAME, param, param_info, data_df,
                    value_cellname_nename_pairs, first_value,
                    wrong_parameters_data, spec_row, observation, result,
                    xvars >>
    /\ UNCHANGED ovars

\* Lines 1139-1184: the `if validation == "incorrect"` that follows the
\* second loop, at the indentation of the loop and not inside it: it runs
\* once, on the variables the last pass (or the first pair) left.
AfterValues ==
    /\ pc = "rest"
    /\ next_index > Len(value_cellname_nename_pairs)
    /\ wrong_parameters_data' =
          IF validation = "incorrect"
          THEN Append(wrong_parameters_data,
                      wrong_row(param, param_info, value, cellname, nename,
                                cell_type, node_type, category_info,
                                SHEET_NAME, expected_co_node_value))
          ELSE wrong_parameters_data
    /\ pc' = "done"
    /\ UNCHANGED << SHEET_NAME, param, param_info, data_df,
                    value_cellname_nename_pairs, first_value, value, cellname,
                    nename, cell_type, node_type, category_info,
                    expected_co_node_value, validation, next_index,
                    main_output_data, missing_data_records, validation_stats,
                    vvars, xvars >>
    /\ UNCHANGED ovars

Next == CollectPairs \/ FirstValue \/ NextValue \/ AfterValues

Spec == InitRun /\ [][Next]_vars

SpecCellLocalId == InitCellLocalId /\ [][Next]_vars


(***************************************************************************)
(* Properties of validate_parameter_value (SpecValidate) and of the run    *)
(* (Spec)                                                                  *)
(***************************************************************************)
\* A cell that is present and not an NA marker.
PresentNotNA(v) == ~IsNaN(v) /\ ~is_na_value(v)

\* A label has been returned and the call went past the skipped and no_data
\* returns, so that an expected value was selected.
Selected == result \notin {"pending", "skipped", "no_data"}

\* A label has been returned by a comparison of the observed value with a
\* selected expected value.
Compared == result \notin {"pending", "skipped", "no_data", "no_expected_value"}

CoNodeRule ==
    /\ observation.node_type = StrV(<<"T","D","D","+","F","D","D">>)
    /\ PresentNotNA(spec_row.expected_co_node_value)

\* C1: for every combination of observed value, expected cells, cell type,
\* parameter name, node type, operator and remark, the call of
\* validate_parameter_value ends with exactly one label of the outcome
\* alphabet; no exception takes the place of the label.
C1_ReturnsOneLabel == result # "pending" => result \in Labels

\* Text that float() cannot parse, on both sides, is labelled incorrect.
C1_MalformedIsIncorrect ==
    /\ result = "incorrect"
    /\ observation.actual_value = StrV(<<"x"," ","y">>)
    /\ expected_value = StrV(<<"e","n","a","b","l","e","d">>)

\* The co-node argument of the run's calls.
RunCoNode == IF SHEET_NAME = "NRCellCU" THEN param_info.CoNode ELSE NoneV

\* C2: the Validation label of every output row is the label of that row's
\* own value, validated with the row's own cell type, node type, operator
\* and remark, whatever the other rows of the parameter hold.
C2_RowValidatedOnOwnValue ==
    \A i \in 1..Len(main_output_data) :
        main_output_data[i].Validation
          = validate_call(value_cellname_nename_pairs[i].value, param_info,
                          RunCoNode,
                          get_cell_type(value_cellname_nename_pairs[i].CellName),
                          param,
                          get_node_type(value_cellname_nename_pairs[i].NeName),
                          category_of(value_cellname_nename_pairs[i].NeName))

\* C3: whenever the node category is TDD+FDD and the co-node cell is
\* present and not an NA marker, the expected value of the comparison is the
\* co-node value, for every cell type and whatever the TDD, FDD and default
\* cells hold.
C3_CoNodeValueWins ==
    (Selected /\ CoNodeRule)
        => expected_value = spec_row.expected_co_node_value

\* A TDD cell with a usable TDD value on a TDD+FDD node: the co-node value
\* is the one compared.
C3_CoNodeOverTdd ==
    /\ Selected
    /\ CoNodeRule
    /\ observation.cell_type = "TDD"
    /\ PresentNotNA(spec_row.expected_tdd_value)
    /\ PresentNotNA(spec_row.expected_default_value)
    /\ expected_value = spec_row.expected_co_node_value
    /\ expected_value # spec_row.expected_tdd_value

\* The default cell when usable, else no expected value.
DefaultOrNone(info) ==
    IF PresentNotNA(info.Default) THEN info.Default ELSE NoneV

\* The TDD cells of the parameter that are present and not NA.
UsableTddCells(info) == { v \in {info.Mid, info.Hig} : PresentNotNA(v) }

\* C4: where the co-node rule does not apply, a TDD cell takes the TDD value
\* if present and not NA, else the default; an FDD cell takes the FDD value
\* if present and not NA, else the default; an unknown cell type takes the
\* default only; nothing selected means no expected value.  (Either TDD
\* column counts as the TDD value here.)
C4_SelectionByCellType ==
    ( /\ validation \notin {"unbound", "skipped", "no_data"}
      /\ ~( /\ node_type = StrV(<<"T","D","D","+","F","D","D">>)
            /\ PresentNotNA(expected_co_node_value) ) )
    => CASE cell_type = "TDD" ->
              IF UsableTddCells(param_info) # {}
              THEN expected_value \in UsableTddCells(param_info)
              ELSE expected_value = DefaultOrNone(param_info)
         [] cell_type = "FDD" ->
              IF PresentNotNA(param_info.Fdd)
              THEN expected_value = param_info.Fdd
              ELSE expected_value = DefaultOrNone(param_info)
         [] OTHER -> expected_value = DefaultOrNone(param_info)

AllExpectedEmpty ==
    /\ ~PresentNotNA(spec_row.expected_default_value)
    /\ ~PresentNotNA(spec_row.expected_tdd_value)
    /\ ~PresentNotNA(spec_row.expected_fdd_value)
    /\ ~PresentNotNA(spec_row.expected_co_node_value)

\* C5: when the default, TDD, FDD and co-node cells of a parameter are all
\* empty or NA, an empty observation is labelled correct and a non-empty one
\* incorrect (parameters that are skipped aside).
C5_AllEmptyExpected ==
    (result \notin {"pending", "skipped"} /\ AllExpectedEmpty)
    => IF \/ IsNaN(observation.actual_value)
          \/ IsEmptyStr(observation.actual_value)
       THEN result = "correct"
       ELSE result = "incorrect"

\* C6: a parameter whose name contains, whatever the case of its letters,
\* administrativestate or nrtac is labelled skipped for every observed value
\* (empty and NaN included), every expected cell and every context.
C6_ExcludedNamesSkipped ==
    ( /\ result # "pending"
      /\ \/ Contains(Lower(spec_row.parameter_name), <<"a","d","m","i","n","i","s","t","r","a","t","i","v","e","s","t","a","t","e">>)
         \/ Contains(Lower(spec_row.parameter_name), <<"n","r","t","a","c">>) )
    => result = "skipped"

\* nRTAC with an observation that is NaN: skipped, not no_data.
C6_SkippedBeforeNoData ==
    /\ result = "skipped"
    /\ spec_row.parameter_name = <<"n","R","T","A","C">>
    /\ observation.actual_value = NaNV

\* C7: an expected string with both the (BYT) and the (SFR) marker
\* classifies as operator_specific, never as key_value_pairs or
\* single_key_value, also when commas separate segments that all hold "=".
C7_OperatorMarkersFirst ==
    ( /\ pattern_type # "unset"
      /\ Contains(PyStr(expected_value), <<"(","B","Y","T",")">>)
      /\ Contains(PyStr(expected_value), <<"(","S","F","R",")">>) )
    => pattern_type = "operator_specific"

\* C8: whenever the normalized observed value equals the normalized full
\* expected value, the label is correct, and not correct_extracted,
\* correct_fuzzy or correct_numeric.
C8_NormalizedMatchIsCorrect ==
    ( /\ Compared
      /\ normalize_actual_value(observation.actual_value)
           = normalize_actual_value(expected_value) )
    => result = "correct"

\* C9: an expected value of the value-with-explanation shape whose leading
\* token equals the observed value ("14 = 14ms" against "14") is labelled
\* correct_extracted.
C9_LeadingTokenIsExtracted ==
    ( /\ Compared
      /\ pattern_type = "value_with_explanation"
      /\ normalize_actual_value(observation.actual_value)
           = normalize_actual_value(extract_main_value(expected_value)) )
    => result = "correct_extracted"

\* C10: on a TDD+FDD node whose co-node value follows the Profile
\* convention, a TDD cell whose observed value holds Profile=0 is labelled
\* correct_fuzzy, and an FDD cell whose observed value holds Profile=1 is
\* accepted.
C10_ProfileConvention ==
    ( /\ Compared
      /\ CoNodeRule
      /\ Contains(PyStr(spec_row.expected_co_node_value), <<"P","r","o","f","i","l","e","=">>) )
    => /\ ( /\ observation.cell_type = "TDD"
            /\ Contains(PyStr(observation.actual_value), <<"P","r","o","f","i","l","e","=","0">>) )
          => result = "correct_fuzzy"
       /\ ( /\ observation.cell_type = "FDD"
            /\ Contains(PyStr(observation.actual_value), <<"P","r","o","f","i","l","e","=","1">>) )
          => result \in {"correct", "correct_extracted", "correct_fuzzy",
                         "correct_numeric"}


(***************************************************************************)
(* Properties of the run on cellLocalId (SpecCellLocalId) and of nodes     *)
(* of generation Gen2 (Spec)                                               *)
(***************************************************************************)
\* C11: for a parameter whose name contains celllocalid, the expected value
\* comes from a table keyed by the first and the last character of the cell
\* name, not from the parameter sheet: a cell Q...A that holds 51 is
\* labelled correct whatever the sheet holds.
C11_CellLocalIdLookup ==
    \A i \in 1..Len(main_output_data) :
        ( /\ Contains(Lower(param), <<"c","e","l","l","l","o","c","a","l","i","d">>)
          /\ PyStr(main_output_data[i].CellName)[1] = "Q"
          /\ PyStr(main_output_data[i].CellName)[Len(PyStr(main_output_data[i].CellName))] = "A"
          /\ value_cellname_nename_pairs[1].value = StrV(<<"5","1">>)
          /\ value_cellname_nename_pairs[i].value = StrV(<<"5","1">>) )
        => main_output_data[i].Validation = "correct"

\* C12: a row of a node whose Gen marker is Gen2 and whose observation is
\* empty is labelled correct, whatever the expected cells hold.
C12_Gen2EmptyIsCorrect ==
    \A i \in 1..Len(main_output_data) :
        ( /\ main_output_data[i].Gen = <<"G","e","n","2">>
          /\ IsNaN(value_cellname_nename_pairs[1].value)
          /\ IsNaN(value_cellname_nename_pairs[i].value) )
        => main_output_data[i].Validation = "correct"


(***************************************************************************)
(* The value helpers, called on their own (lines 173-201 and 273-281)      *)
(***************************************************************************)
\* No ParameterSpec is loaded and no observation validated.
ValidateIdle ==
    /\ spec_row = [parameter_name |-> << >>, expected_tdd_value |-> NoneV,
                   expected_fdd_value |-> NoneV,
                   expected_default_value |-> NoneV,
                   expected_co_node_value |-> NoneV]
    /\ observation = NoObservation
    /\ expected_value = NoneV
    /\ pattern_type = "unset"
    /\ result = "pending"

\* Cells as pandas and openpyxl hand them over: null, NaN, booleans,
\* numbers and text (blank, boolean spellings, NA markers, numerals, words).
RawValues ==
    { NoneV, NaNV, BoolV(TRUE), BoolV(FALSE),
      NumV(<<"1">>), NumV(<<"0">>), NumV(<<"1",".","0">>), NumV(<<"2",".","5">>) }
    \cup { StrV(s) : s \in
        { << >>, <<" ">>, <<" "," ">>,
          <<"v","r","a","i">>, <<"V","R","A","I">>, <<"V","r","a","i">>, <<"t","r","u","e">>, <<"T","R","U","E">>, <<" ","t","r","u","e"," ">>,
          <<"o","u","i">>, <<"1">>,
          <<"f","a","u","x">>, <<"F","A","U","X">>, <<"f","a","l","s","e">>, <<"F","A","L","S","E">>, <<"n","o","n">>, <<"0">>,
          <<"1",".","0">>, <<" ","1",".","0"," ">>, <<"2",".","5","0">>, <<"-","3",".","0">>, <<"1","e","3">>, <<"0",".","0">>,
          <<"a","b","c">>, <<" ","a","b","c"," ">>, <<"x"," ","y">>,
          <<"n","/","a">>, <<"N","/","A">>, <<" ","N","/","A"," ">>, <<"n","u","l","l">>, <<"N","U","L","L">>, <<"n","o","n","e">>,
          <<"N","o","n","e">>, <<"n","a","n">>, <<"N","a","N">>, <<"e","m","p","t","y">>, <<"E","m","p","t","y">>, <<"v","i","d","e">>,
          <<"V","I","D","E">>, <<"-">>, <<" ","-"," ">>, <<"r","e","a","d","-","o","n","l","y">>, <<"R","e","a","d","-","O","n","l","y">>,
          <<"r","e","a","d","o","n","l","y">>, <<"-","-">>, <<"n","/","a",".">>, <<"n","o","t"," ","n","o","n","e">> } }

\* A raw value is at hand; no helper has been called on it.
InitNormalizer ==
    /\ raw \in RawValues
    /\ normalized = Unset
    /\ renormalized = Unset
    /\ na_result = "unset"
    /\ expected_key = << >>
    /\ actual_key = << >>
    /\ key_match = "unset"
    /\ environment = NoEnvironment
    /\ output_written = FALSE
    /\ ValidateIdle
    /\ RunIdle
    /\ OthersIdle

\* normalized = normalize_actual_value(raw)
Normalize ==
    /\ raw # Unset
    /\ normalized = Unset
    /\ normalized' = normalize_actual_value(raw)
    /\ UNCHANGED << raw, renormalized, na_result, expected_key, actual_key,
                    key_match, environment, output_written, vvars, rvars >>
    /\ UNCHANGED ovars

\* renormalized = normalize_actual_value(normalized)
NormalizeAgain ==
    /\ normalized # Unset
    /\ renormalized = Unset
    /\ renormalized' = normalize_actual_value(normalized)
    /\ UNCHANGED << raw, normalized, na_result, expected_key, actual_key,
                    key_match, environment, output_written, vvars, rvars >>
    /\ UNCHANGED ovars

\* na_result = is_na_value(raw)
IsNa ==
    /\ raw # Unset
    /\ na_result = "unset"
    /\ na_result' = IF is_na_value(raw) THEN "True" ELSE "False"
    /\ UNCHANGED << raw, normalized, renormalized, expected_key, actual_key,
                    key_match, environment, output_written, vvars, rvars >>
    /\ UNCHANGED ovars

NextNormalizer == Normalize \/ NormalizeAgain \/ IsNa

SpecNormalizer == InitNormalizer /\ [][NextNormalizer]_vars

(***************************************************************************)
(* Properties of the value helpers (SpecNormalizer)                        *)
(***************************************************************************)
\* C13: normalize_actual_value is idempotent: applied to its own result it
\* returns that result, for every raw value.
C13_NormalizerIdempotent ==
    renormalized # Unset => renormalized = normalized

\* C14: the normalizer the matcher applies to both sides maps vrai, VRAI,
\* true, TRUE, oui and 1 to "true", and faux, FAUX, false, non and 0 to
\* "false".
C14_BooleanSpellings ==
    normalized # Unset =>
        /\ raw \in { StrV(s) : s \in { <<"v","r","a","i">>, <<"V","R","A","I">>, <<"t","r","u","e">>,
                                      <<"T","R","U","E">>, <<"o","u","i">>, <<"1">> } }
              => normalized = StrV(TrueStr)
        /\ raw \in { StrV(s) : s \in { <<"f","a","u","x">>, <<"F","A","U","X">>, <<"f","a","l","s","e">>,
                                      <<"n","o","n">>, <<"0">> } }
              => normalized = StrV(FalseStr)

\* The values the NA test is to accept among RawValues: null, NaN, the
\* empty string, and the eight markers in any case, blanks around them
\* trimmed.
NaInputs ==
    { NoneV, NaNV }
    \cup { StrV(s) : s \in
        { << >>, <<"n","/","a">>, <<"N","/","A">>, <<" ","N","/","A"," ">>, <<"n","u","l","l">>, <<"N","U","L","L">>, <<"n","o","n","e">>,
          <<"N","o","n","e">>, <<"n","a","n">>, <<"N","a","N">>, <<"e","m","p","t","y">>, <<"E","m","p","t","y">>, <<"v","i","d","e">>,
          <<"V","I","D","E">>, <<"-">>, <<" ","-"," ">>, <<"r","e","a","d","-","o","n","l","y">>, <<"R","e","a","d","-","O","n","l","y">> } }

\* C15: is_na_value is true for null or NaN, for the empty string and,
\* whatever the case and after trimming, for n/a, null, none, nan, empty,
\* vide, - and read-only; it is false for every other value, "0" and
\* "false" among them.
C15_NaMarkers ==
    na_result # "unset" =>
        na_result = (IF raw \in NaInputs THEN "True" ELSE "False")

\* A marker in upper case with blanks around it is NA.
C15_TrimmedMarkerIsNA ==
    /\ raw = StrV(<<" ","N","/","A"," ">>)
    /\ na_result = "True"


(***************************************************************************)
(* fuzzy_key_match, called on its own (lines 283-331)                      *)
(***************************************************************************)
\* Keys as parse_key_value_pairs yields them: names with and without a
\* prefix of the list, names in several words, and keys without letters.
Keys ==
    { <<"E","n","e","r","g","y","E","f","f","i","c","i","e","n","c","y">>, <<"v","s","D","a","t","a","E","n","e","r","g","y","E","f","f","i","c","i","e","n","c","y">>, <<"C","e","l","l","B","a","r","r","e","d">>,
      <<"n","r","C","e","l","l","B","a","r","r","e","d">>, <<"b","a","r","r","e","d">>, <<" ","p","M","a","x"," ">>, <<"v","s","D","a","t","a">>, <<"p","a","r","a","m","e","t","e","r","X">>,
      <<"b"," ","a">>, <<"a"," ","b"," ","c">>, <<"a"," ","d">>, <<"a","1","b">>, <<"1">>, <<"1","2">>, <<"7">> }

\* Two keys are at hand; fuzzy_key_match has not been called on them.
InitFuzzy ==
    /\ expected_key \in Keys
    /\ actual_key \in Keys
    /\ key_match = "unset"
    /\ raw = Unset
    /\ normalized = Unset
    /\ renormalized = Unset
    /\ na_result = "unset"
    /\ environment = NoEnvironment
    /\ output_written = FALSE
    /\ ValidateIdle
    /\ RunIdle
    /\ OthersIdle

\* key_match = fuzzy_key_match(expected_key, actual_key)
FuzzyKeyMatch ==
    /\ expected_key # << >>
    /\ key_match = "unset"
    /\ key_match' = IF fuzzy_key_match(expected_key, actual_key)
                    THEN "True" ELSE "False"
    /\ UNCHANGED << raw, normalized, renormalized, na_result, expected_key,
                    actual_key, environment, output_written, vvars, rvars >>
    /\ UNCHANGED ovars

NextFuzzy == FuzzyKeyMatch

SpecFuzzy == InitFuzzy /\ [][NextFuzzy]_vars

(***************************************************************************)
(* Properties of fuzzy_key_match (SpecFuzzy)                               *)
(***************************************************************************)
\* The cleaned keys are equal or one contains the other.
CleanedKeysOverlap(a, b) ==
    \/ normalize_parameter_key(a) = normalize_parameter_key(b)
    \/ Contains(normalize_parameter_key(a), normalize_parameter_key(b))
    \/ Contains(normalize_parameter_key(b), normalize_parameter_key(a))

\* A word set of the two cleaned keys that is not larger than the other is
\* contained in their intersection.
SmallerWordSetShared(a, b) ==
    \E small \in { WordSet(normalize_parameter_key(a)),
                   WordSet(normalize_parameter_key(b)) } :
        /\ \A other \in { WordSet(normalize_parameter_key(a)),
                          WordSet(normalize_parameter_key(b)) } :
              Cardinality(small) <= Cardinality(other)
        /\ small \subseteq ( WordSet(normalize_parameter_key(a))
                             \cap WordSet(normalize_parameter_key(b)) )

\* Both cleaned keys hold at least one alphabetic word.
BothHaveWords(a, b) ==
    /\ WordSet(normalize_parameter_key(a)) # {}
    /\ WordSet(normalize_parameter_key(b)) # {}

\* The two examples of the claim, and symmetry in the two arguments.
FuzzyExamplesAndSymmetry ==
    /\ ( /\ expected_key = <<"E","n","e","r","g","y","E","f","f","i","c","i","e","n","c","y">>
         /\ actual_key = <<"v","s","D","a","t","a","E","n","e","r","g","y","E","f","f","i","c","i","e","n","c","y">> ) => key_match = "True"
    /\ ( /\ expected_key = <<"E","n","e","r","g","y","E","f","f","i","c","i","e","n","c","y">>
         /\ actual_key = <<"C","e","l","l","B","a","r","r","e","d">> ) => key_match = "False"
    /\ (key_match = "True") <=> fuzzy_key_match(actual_key, expected_key)

\* C16 as stated: fuzzy_key_match is true exactly when, after lower-casing
\* and stripping one leading prefix, the cleaned keys are equal, or one
\* contains the other, or the smaller word set is contained in the
\* intersection of the word sets; EnergyEfficiency matches
\* vsDataEnergyEfficiency and not CellBarred; the relation is symmetric.
C16_FuzzyKeyMatchAsStated ==
    key_match # "unset" =>
        /\ (key_match = "True") <=>
              \/ CleanedKeysOverlap(expected_key, actual_key)
              \/ SmallerWordSetShared(expected_key, actual_key)
        /\ FuzzyExamplesAndSymmetry

\* C16, amended: the word-set clause counts only when both cleaned keys
\* hold at least one alphabetic word.
C16_FuzzyKeyMatch ==
    key_match # "unset" =>
        /\ (key_match = "True") <=>
              \/ CleanedKeysOverlap(expected_key, actual_key)
              \/ /\ BothHaveWords(expected_key, actual_key)
                 /\ SmallerWordSetShared(expected_key, actual_key)
        /\ FuzzyExamplesAndSymmetry

\* Two keys in the same words, in another order: matched by the word sets
\* alone, neither cleaned key containing the other.
C16_MatchedByWordSets ==
    /\ key_match = "True"
    /\ expected_key = <<"b"," ","a">>
    /\ actual_key = <<"a"," ","b"," ","c">>
    /\ ~CleanedKeysOverlap(expected_key, actual_key)


(***************************************************************************)
(* Properties of the wrong table (Spec)                                    *)
(***************************************************************************)
\* The output rows labelled incorrect, in the order of the main table.
IncorrectRows ==
    SelectSeq(main_output_data, LAMBDA row : row.Validation = "incorrect")

\* A wrong entry carries the CellName, the NeName and the value of a row.
EntryOfRow(entry, row) ==
    /\ entry.CellName = row.CellName
    /\ entry.NeName = row.NeName
    /\ entry.Actual_Value = row.Value

\* C17: when the parameter is done, the wrong table holds exactly one
\* entry for each output row labelled incorrect and none for any other
\* row, and each entry carries the CellName, NeName and actual value of its
\* row, whether the parameter has one, two or more data rows.
C17_OneEntryPerIncorrectRow ==
    pc = "done" =>
        /\ Len(wrong_parameters_data) = Len(IncorrectRows)
        /\ \E f \in [1..Len(IncorrectRows) -> 1..Len(IncorrectRows)] :
              /\ \A i, j \in 1..Len(IncorrectRows) : f[i] = f[j] => i = j
              /\ \A i \in 1..Len(IncorrectRows) :
                    EntryOfRow(wrong_parameters_data[i], IncorrectRows[f[i]])

\* C18: the Expected_Value of the entry written for a row labelled
\* incorrect is the expected cell validate_parameter_value selected and
\* compared with for that row, for every cell type, node type and pattern
\* of empty or NA expected cells.
C18_ExpectedValueIsTheSelectedOne ==
    ( /\ validation = "incorrect"
      /\ pc = "done" \/ (pc = "rest" /\ next_index = 2) )
    => wrong_parameters_data[Len(wrong_parameters_data)].Expected_Value
         = expected_value


(***************************************************************************)
(* The script from its first prompt to the saved workbook (lines 713-1485) *)
(***************************************************************************)
\* The variables of the loop body, all but its position and its inputs.
loop_vars ==
    << value_cellname_nename_pairs, first_value, value, cellname, nename,
       cell_type, node_type, category_info, expected_co_node_value,
       validation, next_index, main_output_data, wrong_parameters_data,
       missing_data_records, validation_stats >>

\* The variables of the helper calls made on their own.
helper_vars ==
    << raw, normalized, renormalized, na_result, expected_key, actual_key,
       key_match >>

\* Rows of the export in a run from the first prompt on
SetupRows ==
    [value : { NaNV, StrV(<<"5">>) }, CellName : { StrV(<<"Q","1","A">>) },
     NeName : RunNeNames \cup { StrV(<<"Z","9">>) }]

\* Names in the column Parameter of the sheet
SetupParameterNames == { <<"p","M","a","x">>, <<"n","R","T","A","C">>, <<"a","d","m","i","n","i","s","t","r","a","t","i","v","e","S","t","a","t","e">> }

\* Cells in the column of the default value, which also marks the
\* read-only parameters
SetupDefaultCells == { StrV(<<"8">>), StrV(<<" ","R","e","a","d","-","O","n","l","y"," ">>) }

\* The script is started; nothing has been typed or read.
InitSetup ==
    /\ pc = "choice"
    /\ SHEET_NAME = "unbound"
    /\ environment = [choice |-> "none", failed |-> "none"]
    /\ output_written = FALSE
    /\ param = << >>
    /\ param_info = [Mid |-> NoneV, Hig |-> NoneV, Fdd |-> NoneV,
                     Default |-> NoneV, CoNode |-> NoneV]
    /\ data_df = << >>
    /\ value_cellname_nename_pairs = << >>
    /\ first_value = Unbound
    /\ value = Unbound
    /\ cellname = Unbound
    /\ nename = Unbound
    /\ cell_type = "unbound"
    /\ node_type = Unbound
    /\ category_info = NoCategory
    /\ expected_co_node_value = NoneV
    /\ validation = "unbound"
    /\ next_index = 0
    /\ main_output_data = << >>
    /\ wrong_parameters_data = << >>
    /\ missing_data_records = << >>
    /\ validation_stats = ZeroStats
    /\ raw = Unset
    /\ normalized = Unset
    /\ renormalized = Unset
    /\ na_result = "unset"
    /\ expected_key = << >>
    /\ actual_key = << >>
    /\ key_match = "unset"
    /\ ValidateIdle
    /\ OthersIdle

\* A step of the setup: it finds one of the failures it tests for, prints
\* a diagnostic and raises SystemExit, or finds none and goes on.
SetupStep(here, next, failures) ==
    /\ pc = here
    /\ \E found \in failures \cup {"none"} :
          /\ environment' = [environment EXCEPT !.failed = found]
          /\ pc' = IF found = "none" THEN next ELSE "aborted"

\* Lines 715-719
ChooseSheet ==
    /\ pc = "choice"
    /\ \E choice \in {"NRCellCU", "NRCellDU", "nrcellcu"} :
          IF choice \in {"NRCellCU", "NRCellDU"}
          THEN /\ environment' = [environment EXCEPT !.choice = choice]
               /\ SHEET_NAME' = choice
               /\ pc' = "category_file"
          ELSE /\ environment' = [choice |-> choice,
                                  failed |-> "invalid choice"]
               /\ pc' = "aborted"
               /\ UNCHANGED SHEET_NAME
    /\ UNCHANGED << param, param_info, data_df, loop_vars, helper_vars,
                    output_written, vvars >>
    /\ UNCHANGED ovars

\* Lines 722-735
OpenCategoryFile ==
    /\ SetupStep("category_file", "parameter_file",
                 {"category file not found", "categories not loaded"})
    /\ UNCHANGED << SHEET_NAME, param, param_info, data_df, loop_vars,
                    helper_vars, output_written, vvars >>
    /\ UNCHANGED ovars

\* Lines 738-744
OpenParameterFile ==
    /\ SetupStep("parameter_file", "data_file", {"parameter file not found"})
    /\ UNCHANGED << SHEET_NAME, param, param_info, data_df, loop_vars,
                    helper_vars, output_written, vvars >>
    /\ UNCHANGED ovars

\* Lines 747-753
OpenDataFile ==
    /\ SetupStep("data_file", "validate_files", {"data file not found"})
    /\ UNCHANGED << SHEET_NAME, param, param_info, data_df, loop_vars,
                    helper_vars, output_written, vvars >>
    /\ UNCHANGED ovars

\* Lines 755-766
ValidateFiles ==
    /\ SetupStep("validate_files", "workbook",
                 {"parameter file invalid", "data file invalid",
                  "category file invalid"})
    /\ UNCHANGED << SHEET_NAME, param, param_info, data_df, loop_vars,
                    helper_vars, output_written, vvars >>
    /\ UNCHANGED ovars

\* Lines 773-784
LoadParameterWorkbook ==
    /\ SetupStep("workbook", "columns",
                 {"parameter workbook unreadable", "sheet missing"})
    /\ UNCHANGED << SHEET_NAME, param, param_info, data_df, loop_vars,
                    helper_vars, output_written, vvars >>
    /\ UNCHANGED ovars

\* Lines 786-810
CheckParameterColumns ==
    /\ SetupStep("columns", "parameters", {"required column missing"})
    /\ UNCHANGED << SHEET_NAME, param, param_info, data_df, loop_vars,
                    helper_vars, output_written, vvars >>
    /\ UNCHANGED ovars

\* Lines 812-860: the row of the sheet is kept unless its name is one of
\* the excluded ones or its default cell says read-only.
CollectParameters ==
    /\ pc = "parameters"
    /\ \E name \in SetupParameterNames, def \in SetupDefaultCells,
          co \in RunCoNodeCells :
          IF /\ ~skipped_parameter(name)
             /\ Lower(Strip(PyStr(def))) # <<"r","e","a","d","-","o","n","l","y">>
          THEN /\ param' = name
               /\ param_info' =
                     [Mid |-> NoneV, Hig |-> NoneV, Fdd |-> NoneV,
                      Default |-> def,
                      CoNode |-> IF SHEET_NAME = "NRCellCU" THEN co
                                 ELSE NoneV]
          ELSE UNCHANGED << param, param_info >>
    /\ pc' = "data"
    /\ UNCHANGED << SHEET_NAME, data_df, loop_vars, helper_vars,
                    environment, output_written, vvars >>
    /\ UNCHANGED ovars

\* Lines 863-884
LoadData ==
    /\ SetupStep("data", "match",
                 {"data file unreadable", "no CellName column",
                  "no NeName column"})
    /\ IF pc' = "match"
       THEN \E n \in 1..MaxRows : data_df' \in [1..n -> SetupRows]
       ELSE UNCHANGED data_df
    /\ UNCHANGED << SHEET_NAME, param, param_info, loop_vars, helper_vars,
                    output_written, vvars >>
    /\ UNCHANGED ovars

\* Lines 886-900 without the SystemExit of line 900: the loop over an empty
\* list of parameters runs no pass and the workbook is saved.
MatchParameters_without_abort ==
    /\ pc = "match"
    /\ \E in_data \in BOOLEAN :
          IF param # << >> /\ in_data
          THEN /\ pc' = "collect"
               /\ UNCHANGED environment
          ELSE /\ pc' = "done"
               /\ environment' =
                     [environment EXCEPT !.failed = "no parameter in common"]
    /\ UNCHANGED << SHEET_NAME, param, param_info, data_df, loop_vars,
                    helper_vars, output_written, vvars >>
    /\ UNCHANGED ovars

\* Lines 886-900: the parameters of the sheet that are columns of the
\* export; with none of them the script stops.
MatchParameters ==
    /\ pc = "match"
    /\ \E in_data \in BOOLEAN :
          IF param # << >> /\ in_data
          THEN /\ pc' = "collect"
               /\ UNCHANGED environment
          ELSE /\ pc' = "aborted"
               /\ environment' =
                     [environment EXCEPT !.failed = "no parameter in common"]
    /\ UNCHANGED << SHEET_NAME, param, param_info, data_df, loop_vars,
                    helper_vars, output_written, vvars >>
    /\ UNCHANGED ovars

\* Lines 1186-1515: the workbook is built and saved; an exception of the
\* save is caught and reported.
SaveWorkbook ==
    /\ pc = "done"
    /\ environment.choice # "none"
    /\ \E saved \in BOOLEAN : output_written' = saved
    /\ pc' = "saved"
    /\ UNCHANGED << SHEET_NAME, param, param_info, data_df, loop_vars,
                    helper_vars, environment, vvars >>
    /\ UNCHANGED ovars

NextSetup ==
    \/ ChooseSheet
    \/ OpenCategoryFile
    \/ OpenParameterFile
    \/ OpenDataFile
    \/ ValidateFiles
    \/ LoadParameterWorkbook
    \/ CheckParameterColumns
    \/ CollectParameters
    \/ LoadData
    \/ MatchParameters
    \/ CollectPairs
    \/ FirstValue
    \/ NextValue
    \/ AfterValues
    \/ SaveWorkbook

SpecSetup == InitSetup /\ [][NextSetup]_vars

(***************************************************************************)
(* Properties of the setup (SpecSetup)                                     *)
(***************************************************************************)
\* C19: when a setup precondition fails (a file missing or unreadable, the
\* sheet or a required column missing, no parameter in common), the run
\* stops with no row validated and no output workbook written; and the run
\* never stops on a setup failure once a row has been validated.
C19_SetupAbortsBeforeRows ==
    (environment.failed # "none" \/ pc = "aborted")
    => /\ pc = "aborted"
       /\ environment.failed # "none"
       /\ main_output_data = << >>
       /\ validation = "unbound"
       /\ validation_stats = ZeroStats
       /\ ~output_written

\* The last of the setup checks fails, with both files read: the run stops
\* with the export loaded and no row validated.
C19_AbortOnNoCommonParameter ==
    /\ pc = "aborted"
    /\ environment.failed = "no parameter in common"
    /\ data_df # << >>
    /\ main_output_data = << >>
    /\ ~output_written


(***************************************************************************)
(* Properties of the main table (Spec)                                     *)
(***************************************************************************)
\* Output row i is the row of data row: its CellName, its NeName and its
\* value as displayed.
ShowsDataRow(row, data) ==
    /\ row.CellName = data.CellName
    /\ row.NeName = data.NeName
    /\ row.Value = convert_for_display(data.value)

\* The first row of the group carries the parameter name and the expected
\* cells; the later rows leave them blank.
GroupColumns(i) ==
    LET row == main_output_data[i]
    IN  IF i = 1
        THEN /\ row.Parameter = StrV(param)
             /\ row.Default = param_info.Default
             /\ row.Mid = param_info.Mid
             /\ row.Fdd = param_info.Fdd
             /\ row.Hig = param_info.Hig
             /\ SHEET_NAME = "NRCellCU" => row.CoNode = param_info.CoNode
        ELSE /\ row.Parameter = StrV(<< >>)
             /\ row.Default = StrV(<< >>)
             /\ row.Mid = StrV(<< >>)
             /\ row.Fdd = StrV(<< >>)
             /\ row.Hig = StrV(<< >>)
             /\ SHEET_NAME = "NRCellCU" => row.CoNode = StrV(<< >>)

\* The main table lists the rows of rows, in their order, the first one
\* with the columns of the group.
MainTableLists(rows) ==
    /\ Len(main_output_data) <= Len(rows)
    /\ pc = "done" => Len(main_output_data) = Len(rows)
    /\ \A i \in 1..Len(main_output_data) :
          /\ ShowsDataRow(main_output_data[i], rows[i])
          /\ GroupColumns(i)

\* C20 as stated: the main table lists one output row per data row of the
\* export, in the order of the data rows, and only the first row of the
\* parameter's group carries the parameter name and the expected-value
\* columns.
C20_OneRowPerDataRow == MainTableLists(data_df)

\* The data rows with a value, a CellName or a NeName (line 940).
FilledRows ==
    SelectSeq(data_df,
              LAMBDA row : ~( /\ row.value = NaNV
                              /\ row.CellName = NaNV
                              /\ row.NeName = NaNV ))

\* C20, amended: the main table lists one output row per data row that
\* holds a value, a CellName or a NeName, in the order of the data rows; a
\* data row empty in all three is left out.  Only the first row of the
\* group carries the parameter name and the expected-value columns.
C20_OneRowPerFilledDataRow == MainTableLists(FilledRows)

\* Two data rows of different cells, both listed, in their order, the
\* second with blank group columns.
C20_TwoRowsInOrder ==
    /\ pc = "done"
    /\ Len(data_df) = 2
    /\ Len(main_output_data) = 2
    /\ data_df[1].CellName # data_df[2].CellName
    /\ main_output_data[1].CellName = data_df[1].CellName
    /\ main_output_data[2].CellName = data_df[2].CellName
    /\ main_output_data[1].Parameter = StrV(param)
    /\ main_output_data[2].Parameter = StrV(<< >>)


(***************************************************************************)
(* Properties of get_node_type (SpecSetup)                                 *)
(***************************************************************************)
\* The NeName of the pair validated last.
ValidatedNeName == value_cellname_nename_pairs[next_index - 1].NeName

\* C22: the category of a node name that the category table does not hold
\* is "unknown", with every category field empty; get_node_type never
\* returns None.
C22_AbsentNodeIsUnknown ==
    validation # "unbound" =>
        /\ node_type # NoneV
        /\ Strip(PyStr(ValidatedNeName)) \notin DOMAIN nename_categories
              => /\ node_type = StrV(<<"u","n","k","n","o","w","n">>)
                 /\ category_info = NoCategory


(***************************************************************************)
(* Properties of the pattern-specific comparisons (SpecValidate)           *)
(***************************************************************************)
\* The labels that accept the observed value.
CorrectLabels ==
    { "correct", "correct_extracted", "correct_fuzzy", "correct_numeric" }

\* The node tags the expected string names.
NamedTags ==
    { tag \in { <<"Z","T","D">>, <<"C","R","Z">> } : Contains(PyStr(expected_value), tag) }

\* C23: with an expected value classified node_specific, on a node whose
\* remark holds none of the tags the expected string names, an observed
\* value equal to the leading value is not given a correct label by another
\* method.
C23_NodeTagRequired ==
    ( /\ Compared
      /\ pattern_type = "node_specific"
      /\ NamedTags # {}
      /\ \A tag \in NamedTags : ~Contains(observation.remarque, tag)
      /\ normalize_actual_value(observation.actual_value)
           = normalize_actual_value(extract_main_value(expected_value)) )
    => result \notin CorrectLabels

\* The expected cells that tag 1 for BYT and 11 for SFR, with and without
\* "=" before the number.
BytOneSfrEleven ==
    { StrV(<<"B","W","P","S","e","t","=","1"," ","(","B","Y","T",")"," ","/"," ","=","1","1"," ","(","S","F","R",")">>), StrV(<<"1"," ","(","B","Y","T",")"," ","/"," ","1","1"," ","(","S","F","R",")">>) }

\* C24: with an expected value classified operator_specific, a row of
\* operator SFR that observes the BYT value, or of operator BYT that
\* observes the SFR value, gets no correct label, whether or not "="
\* stands before the tagged numbers.
C24_OwnOperatorValueOnly ==
    ( /\ Compared
      /\ pattern_type = "operator_specific"
      /\ expected_value \in BytOneSfrEleven )
    => /\ ( /\ observation.operateur = <<"S","F","R">>
            /\ observation.actual_value = StrV(<<"1">>) )
          => result \notin CorrectLabels
       /\ ( /\ observation.operateur = <<"B","Y","T">>
            /\ observation.actual_value = StrV(<<"1","1">>) )
          => result \notin CorrectLabels

\* The key=value pairs written in a cell, repeated keys included.
WrittenPairs(s) ==
    { << Strip(SplitEq1(Strip(SplitComma(s)[i]))[1]),
         Strip(SplitEq1(Strip(SplitComma(s)[i]))[2]) >> :
        i \in { j \in 1..Len(SplitComma(s)) : HasChar(SplitComma(s)[j], "=") } }

\* The observed string holds a pair whose key matches k fuzzily and whose
\* value is v.
PairFound(k, v, s) ==
    \E pair \in WrittenPairs(s) : fuzzy_key_match(k, pair[1]) /\ pair[2] = v

\* C25: with an expected value classified key_value_pairs, the row gets a
\* correct label only if every pair written in the expected cell, pairs
\* that repeat a key included, is found in the observed value; with a pair
\* missing the label is incorrect.
C25_EveryPairFound ==
    ( /\ Compared
      /\ pattern_type = "key_value_pairs"
      /\ \E pair \in WrittenPairs(Strip(PyStr(expected_value))) :
            ~PairFound(pair[1], pair[2],
                       Strip(PyStr(observation.actual_value))) )
    => result = "incorrect"

(***************************************************************************)
(* Parameters of the sheet against the columns of the export               *)
(* (lines 886-900, 929, 1384-1393)                                         *)
(***************************************************************************)
\* Parameters collected from the sheet per run
MaxParams == 3

\* Names in the column Parameter that pass the filters of lines 829-839.
\* The sheet may list a name twice: line 840 appends without a lookup.
CollectedNames == { <<"p","M","a","x">>, <<"q","R","x","L","e","v","M","i","n">>, <<"s","s","b","F","r","e","q","u","e","n","c","y">> }

\* The collected parameters and the parameter columns of the export are
\* at hand; the availability check has not started (line 887).
InitAvailability ==
    /\ opc = "check"
    /\ \E n \in 1..MaxParams : parameters_to_include \in [1..n -> CollectedNames]
    /\ data_columns \in SUBSET CollectedNames
    /\ available_parameters_in_data = << >>
    /\ missing_parameters_in_data = << >>
    /\ summary_not_found = << >>
    /\ LicenceIdle
    /\ ExtractorIdle
    /\ CompareIdle
    /\ ValidateIdle
    /\ RunIdle
    /\ HelpersIdle

\* The parameter the loop of line 888 takes next.
checked_parameters ==
    Len(available_parameters_in_data) + Len(missing_parameters_in_data)

\* CheckParameter with a parameter that is not a column reported on the
\* console only.
CheckParameter_without_missing_list ==
    /\ opc = "check"
    /\ checked_parameters < Len(parameters_to_include)
    /\ LET p == parameters_to_include[checked_parameters + 1]
       IN  /\ available_parameters_in_data' =
                 Append(available_parameters_in_data, p)
           /\ UNCHANGED missing_parameters_in_data
    /\ UNCHANGED << opc, parameters_to_include, data_columns,
                    summary_not_found, beside_availability >>

\* Lines 888-893: one pass of the loop over parameters_to_include.
CheckParameter ==
    /\ opc = "check"
    /\ checked_parameters < Len(parameters_to_include)
    /\ LET p == parameters_to_include[checked_parameters + 1]
       IN  IF p \in data_columns
           THEN /\ available_parameters_in_data' =
                      Append(available_parameters_in_data, p)
                /\ UNCHANGED missing_parameters_in_data
           ELSE /\ missing_parameters_in_data' =
                      Append(missing_parameters_in_data, p)
                /\ UNCHANGED available_parameters_in_data
    /\ UNCHANGED << opc, parameters_to_include, data_columns,
                    summary_not_found, beside_availability >>

\* Lines 895-900: after the loop, the script stops when no parameter is a
\* column of the export.
AfterCheck ==
    /\ opc = "check"
    /\ checked_parameters = Len(parameters_to_include)
    /\ opc' = IF available_parameters_in_data = << >> THEN "aborted"
              ELSE "validate"
    /\ UNCHANGED << avars, beside_availability >>

\* Lines 929-1184: the loop over available_parameters_in_data validates
\* each of them; it leaves the two lists as they are.
ValidateAvailable ==
    /\ opc = "validate"
    /\ opc' = "summarize"
    /\ UNCHANGED << avars, beside_availability >>

\* Lines 1384-1393: the section "Parameters Not Found in Data File" of the
\* summary sheet.
WriteSummary ==
    /\ opc = "summarize"
    /\ summary_not_found' =
          IF missing_parameters_in_data # << >>
          THEN missing_parameters_in_data
          ELSE << <<"A","l","l"," ","p","a","r","a","m","e","t","e","r","s"," ","w","e","r","e"," ","f","o","u","n","d"," ","i","n"," ","d","a","t","a"," ","f","i","l","e">> >>
    /\ opc' = "summary"
    /\ UNCHANGED << parameters_to_include, data_columns,
                    available_parameters_in_data, missing_parameters_in_data,
                    beside_availability >>

NextAvailability ==
    \/ CheckParameter
    \/ AfterCheck
    \/ ValidateAvailable
    \/ WriteSummary

SpecAvailability == InitAvailability /\ [][NextAvailability]_vars

(***************************************************************************)
(* Properties of the availability check (SpecAvailability)                 *)
(***************************************************************************)
\* The collected parameters the loop of line 888 has gone through.
CheckedPrefix == SubSeq(parameters_to_include, 1, checked_parameters)

\* Occurrences of name in list.
Occurrences(name, list) == Cardinality({ i \in DOMAIN list : list[i] = name })

ListedNames(list) == { list[i] : i \in DOMAIN list }

\* C21: every collected parameter is in exactly one of the two lists: the
\* parameters with a column of the export, which the main loop validates,
\* and those without, which the summary enumerates as not found.  The two
\* lists have no name in common and together hold each collected parameter
\* as often as the sheet lists it, in the sheet's order.
C21_ParametersPartitioned ==
    /\ checked_parameters <= Len(parameters_to_include)
    /\ available_parameters_in_data =
          SelectSeq(CheckedPrefix, LAMBDA p : p \in data_columns)
    /\ missing_parameters_in_data =
          SelectSeq(CheckedPrefix, LAMBDA p : p \notin data_columns)
    /\ ListedNames(available_parameters_in_data)
          \cap ListedNames(missing_parameters_in_data) = {}
    /\ opc # "check" =>
          \A name \in CollectedNames :
              Occurrences(name, available_parameters_in_data)
                + Occurrences(name, missing_parameters_in_data)
              = Occurrences(name, parameters_to_include)
    /\ opc = "summary" =>
          \A name \in CollectedNames :
              Occurrences(name, summary_not_found)
              = Occurrences(name, missing_parameters_in_data)

\* A sheet listing a missing parameter twice and an available one once,
\* with the summary written.
C21_BothListsFilled ==
    /\ opc = "summary"
    /\ Len(available_parameters_in_data) = 1
    /\ Len(missing_parameters_in_data) = 2
    /\ missing_parameters_in_data[1] = missing_parameters_in_data[2]
    /\ summary_not_found = missing_parameters_in_data

(***************************************************************************)
(* licence.py: the rule matcher and the licence table                      *)
(***************************************************************************)
\* str.lower() on the letters the activation rules use
licence_lower(s) ==
    [i \in 1..Len(s) |->
        CASE s[i] = "É" -> "é"
          [] s[i] = "À" -> "à"
          [] OTHER -> LowerChar(s[i])]

\* str(x).lower().strip()
lower_strip(x) == Strip(licence_lower(PyStr(x)))

\* Lines 43-56 of licence.py: the letter of the node, or None.
licence_get_node_type(node_name) ==
    IF node_name = StrV(<<"N","O","T"," ","F","O","U","N","D">>) THEN NoneV
    ELSE IF node_name.k = "str" /\ StartsWith(node_name.s, <<"E">>) THEN StrV(<<"E">>)
    ELSE IF node_name.k = "str" /\ StartsWith(node_name.s, <<"X">>) THEN StrV(<<"X">>)
    ELSE IF node_name.k = "str" /\ StartsWith(node_name.s, <<"G">>) THEN StrV(<<"G">>)
    ELSE NoneV

\* Lines 133-146: the generation check ends the call with False.
gen_check_returns_false(feature_supported_str, site_gen_str) ==
    /\ feature_supported_str # << >>
    /\ site_gen_str # << >>
    /\ \/ /\ \/ Contains(feature_supported_str, <<"g","e","n","3","+">>)
             \/ Contains(feature_supported_str, <<"g","e","n","3","+","=">>)
          /\ Contains(site_gen_str, <<"g","e","n","2">>)
       \/ /\ Contains(feature_supported_str, <<"g","e","n","3">>)
          /\ Contains(site_gen_str, <<"g","e","n","4">>)
          /\ ~Contains(feature_supported_str, <<"g","e","n","3","+">>)
          /\ ~Contains(feature_supported_str, <<"g","e","n","3","+","=">>)
       \/ /\ Contains(feature_supported_str, <<"g","e","n","4">>)
          /\ \/ Contains(site_gen_str, <<"g","e","n","2">>)
             \/ Contains(site_gen_str, <<"g","e","n","3">>)
       \/ /\ Contains(feature_supported_str, <<"g","e","n","2">>)
          /\ \/ Contains(site_gen_str, <<"g","e","n","3">>)
             \/ Contains(site_gen_str, <<"g","e","n","4">>)

\* Line 149: the sentences of the rule.
rules_of(activation_rule) ==
    SelectSeq([i \in DOMAIN SplitAt(activation_rule, {"."}) |->
                  Strip(SplitAt(activation_rule, {"."})[i])],
              LAMBDA rule : rule # << >>)

site_terms ==
    { <<"s","i","t","e"," ","g">>, <<"s","i","t","e"," ","x">>, <<"s","i","t","e"," ","e">>, <<"s","i","t","e","s"," ","g"," ","e","t"," ","x">>, <<"s","i","t","e","s"," ","e"," ","e","t"," ","x">> }

has_site_term(rule) == \E term \in site_terms : Contains(rule, term)

has_tdd(site_cell_str) ==
    \/ Contains(site_cell_str, <<"t","d","d">>)
    \/ Contains(site_cell_str, <<"t","d","d","+","f","d","d">>)
    \/ Contains(site_cell_str, <<"t","d","d"," ","+"," ","f","d","d">>)

general_activation_rules ==
    { <<"a"," ","a","c","t","i","v","e","r"," ","s","u","r"," ","l","e","s"," ","b","b"," ","c","o","n","f","i","g","u","r","é","e","s"," ","e","n"," ","m","i","x","e","d"," ","m","o","d","e">>,
      <<"a"," ","a","c","t","i","v","e","r"," ","s","u","r"," ","l","e","s"," ","b","b"," ","c","o","n","f","i","g","u","r","é","e","s"," ","p","o","u","r"," ","s","u","p","p","o","r","t","e","r"," ","m","o","d","e"," ","e","s","s">>,
      <<"a"," ","a","c","t","i","v","e","r"," ","p","o","u","r"," ","t","e","s","t","s">>,
      <<"a"," ","a","c","t","i","v","e","r"," ","a","u"," ","c","a","s"," ","p","a","r"," ","c","a","s">>,
      <<"g","é","n","é","r","a","l","i","s","é"," ","e","n"," ","c","r","z">>,
      <<"a"," ","i","n","s","t","a","l","l","e","r">>,
      <<"a"," ","a","c","t","i","v","e","r"," ","s","u","r"," ","s","i","t","e","s"," ","g"," ","e","t"," ","x"," ","à"," ","p","a","r","t","i","r"," ","d","e">> }

general_activation_exclusions ==
    site_terms \cup { <<"s","'","i","l"," ","y","a"," ","t","d","d">>, <<"s","'","i","l"," ","y"," ","a"," ","t","d","d">>, <<"e","n"," ","c","r","z">>,
                      <<"e","n"," ","z","t","d">>, <<"d","u","a","l","-","c","o">> }

general_deactivation_rules ==
    { <<"a"," ","d","é","s","a","c","t","i","v","e","r"," ","s","u","r"," ","s","i","t","e","s"," ","e"," ","e","t"," ","x">>, <<"n","e"," ","p","a","s"," ","a","c","t","i","v","e","r">>,
      <<"n","e"," ","p","a","s"," ","a","c","t","i","v","e","r"," ","p","a","r"," ","d","é","f","a","u","t">> }

\* What a sentence appends: to the node-specific list, to the general
\* list, or to neither.
NodeSpecific(decision) == [list |-> "node_specific", decision |-> decision]

General(decision) == [list |-> "general", decision |-> decision]

NoDecision == [list |-> "none", decision |-> FALSE]

\* A branch of lines 157-199 whose rule names nodes: True when the site
\* meets the condition, False for the other sites of the named nodes.
for_nodes(nodes, ntype, condition) ==
    IF ntype \in nodes /\ condition THEN NodeSpecific(TRUE)
    ELSE IF ntype \in nodes THEN NodeSpecific(FALSE)
    ELSE NoDecision

GX == { StrV(<<"G">>), StrV(<<"X">>) }

EX == { StrV(<<"E">>), StrV(<<"X">>) }

\* Lines 245-267: the branches after the node-specific ones.
general_decision(rule) ==
    IF \E r \in general_activation_rules : Contains(rule, r)
    THEN IF ~\E specific \in general_activation_exclusions :
                  Contains(rule, specific)
         THEN General(TRUE) ELSE NoDecision
    ELSE IF \E r \in general_deactivation_rules : Contains(rule, r)
    THEN IF ~\E specific \in { <<"s","i","t","e"," ","x">>, <<"s","i","t","e"," ","g">>, <<"s","i","t","e"," ","e">> } :
                  Contains(rule, specific)
         THEN General(FALSE) ELSE NoDecision
    ELSE NoDecision

\* Lines 225-243: the node-specific activation and deactivation branches.
node_decision(rule, ntype) ==
    IF Contains(rule, <<"a"," ","a","c","t","i","v","e","r"," ","s","u","r"," ","s","i","t","e"," ","x">>) /\ ntype = StrV(<<"X">>)
    THEN NodeSpecific(TRUE)
    ELSE IF Contains(rule, <<"a"," ","a","c","t","i","v","e","r"," ","s","u","r"," ","s","i","t","e"," ","g">>) /\ ntype = StrV(<<"G">>)
    THEN NodeSpecific(TRUE)
    ELSE IF Contains(rule, <<"a"," ","a","c","t","i","v","e","r"," ","s","u","r"," ","s","i","t","e"," ","e">>) /\ ntype = StrV(<<"E">>)
    THEN NodeSpecific(TRUE)
    ELSE IF Contains(rule, <<"a"," ","a","c","t","i","v","e","r"," ","s","u","r"," ","s","i","t","e","s"," ","g"," ","e","t"," ","x">>) /\ ntype \in GX
    THEN NodeSpecific(TRUE)
    ELSE IF Contains(rule, <<"a"," ","a","c","t","i","v","e","r"," ","s","u","r"," ","s","i","t","e","s"," ","e"," ","e","t"," ","x">>) /\ ntype \in EX
    THEN NodeSpecific(TRUE)
    ELSE IF Contains(rule, <<"n","e"," ","p","a","s"," ","a","c","t","i","v","e","r"," ","s","u","r"," ","s","i","t","e"," ","x">>) /\ ntype = StrV(<<"X">>)
    THEN NodeSpecific(FALSE)
    ELSE IF Contains(rule, <<"n","e"," ","p","a","s"," ","a","c","t","i","v","e","r"," ","s","u","r"," ","s","i","t","e"," ","g">>) /\ ntype = StrV(<<"G">>)
    THEN NodeSpecific(FALSE)
    ELSE IF Contains(rule, <<"n","e"," ","p","a","s"," ","a","c","t","i","v","e","r"," ","s","u","r"," ","s","i","t","e"," ","e">>) /\ ntype = StrV(<<"E">>)
    THEN NodeSpecific(FALSE)
    ELSE general_decision(rule)

\* Lines 201-223: the rules on the site's type and cells that name no node.
type_decision(rule, ntype, site_type_str, site_cell_str) ==
    IF Contains(rule, <<"e","n"," ","c","r","z">>) /\ ~has_site_term(rule)
    THEN NodeSpecific(Contains(site_type_str, <<"c","r","z">>))
    ELSE IF Contains(rule, <<"e","n"," ","z","t","d">>) /\ ~has_site_term(rule)
    THEN NodeSpecific(Contains(site_type_str, <<"z","t","d">>))
    ELSE IF /\ Contains(rule, <<"s","'","i","l"," ","y","a"," ","t","d","d">>) \/ Contains(rule, <<"s","'","i","l"," ","y"," ","a"," ","t","d","d">>)
            /\ ~has_site_term(rule)
    THEN NodeSpecific(has_tdd(site_cell_str))
    ELSE node_decision(rule, ntype)

\* Lines 157-267: the if/elif chain on one sentence.
rule_decision(rule, ntype, site_type_str, site_cell_str, site_dual_co_str) ==
    IF Contains(rule, <<"à"," ","l","a"," ","d","u","a","l","-","c","o">>) \/ Contains(rule, <<"é","l","i","g","i","b","l","e","s"," ","à"," ","l","a"," ","d","u","a","l","-","c","o">>)
    THEN for_nodes(EX, ntype, site_dual_co_str # << >>)
    ELSE IF /\ Contains(rule, <<"g","é","n","é","r","a","l","i","s","é"," ","e","n"," ","c","r","z">>)
            /\ Contains(rule, <<"s","'","i","l"," ","y"," ","t","d","d">>)
            /\ Contains(rule, <<"s","i","t","e"," ","g"," ","+"," ","x">>) \/ Contains(rule, <<"s","i","t","e","s"," ","g"," ","e","t"," ","x">>)
    THEN for_nodes(GX, ntype,
                   Contains(site_type_str, <<"c","r","z">>) /\ has_tdd(site_cell_str))
    ELSE IF Contains(rule, <<"a"," ","a","c","t","i","v","e","r"," ","s","u","r"," ","s","i","t","e"," ","g"," ","e","n"," ","c","r","z">>)
    THEN for_nodes({StrV(<<"G">>)}, ntype, Contains(site_type_str, <<"c","r","z">>))
    ELSE IF \/ Contains(rule, <<"a"," ","a","c","t","i","v","e","r"," ","s","u","r"," ","s","i","t","e"," ","g"," ","+"," ","x"," ","s","'","i","l"," ","y","a"," ","t","d","d">>)
            \/ Contains(rule, <<"a"," ","a","c","t","i","v","e","r"," ","s","u","r"," ","s","i","t","e"," ","g"," ","+"," ","x"," ","s","'","i","l"," ","y"," ","a"," ","t","d","d">>)
    THEN for_nodes(GX, ntype, has_tdd(site_cell_str))
    ELSE IF Contains(rule, <<"a"," ","a","c","t","i","v","e","r"," ","s","u","r"," ","s","i","t","e","s"," ","e"," ","e","t"," ","x"," ","e","n"," ","z","t","d">>)
    THEN for_nodes(EX, ntype, Contains(site_type_str, <<"z","t","d">>))
    ELSE IF Contains(rule, <<"a"," ","a","c","t","i","v","e","r"," ","s","u","r"," ","s","i","t","e","s"," ","g"," ","e","t"," ","x"," ","e","n"," ","c","r","z">>)
    THEN for_nodes(GX, ntype, Contains(site_type_str, <<"c","r","z">>))
    ELSE type_decision(rule, ntype, site_type_str, site_cell_str)

\* The decisions the loop of line 155 appends to the list named.
decisions_of(list, rules, ntype, site) ==
    LET made == [i \in DOMAIN rules |->
                    rule_decision(rules[i], ntype, lower_strip(StrV(site.Type)),
                                  lower_strip(StrV(site.Cell)),
                                  lower_strip(StrV(site.DualCo)))]
        kept == SelectSeq(made, LAMBDA d : d.list = list)
    IN  [i \in DOMAIN kept |-> kept[i].decision]

\* final_decision with the general decisions first.
final_decision_general_first(node_specific, general) ==
    IF general # << >>
    THEN IF general[Len(general)] THEN "True" ELSE "False"
    ELSE IF node_specific # << >>
    THEN IF node_specific[Len(node_specific)] THEN "True" ELSE "False"
    ELSE "None"

\* Lines 269-281: the last node-specific decision, else the last general
\* one, else None.
final_decision(node_specific, general) ==
    IF node_specific # << >>
    THEN IF node_specific[Len(node_specific)] THEN "True" ELSE "False"
    ELSE IF general # << >>
    THEN IF general[Len(general)] THEN "True" ELSE "False"
    ELSE "None"

\* Lines 118-281.  The call returns None before any other test when the
\* rule or the node letter is empty (line 123), then False when the
\* generation check says so (lines 133-146), then the final decision on
\* the sentences.  The parameter actual_feature_state is not read.
should_feature_be_active(activation_rule, ntype, feature_supported, site) ==
    IF ~Truthy(activation_rule) \/ ~Truthy(ntype)
    THEN [node_specific |-> << >>, general |-> << >>, returned |-> "None"]
    ELSE IF gen_check_returns_false(
                IF Truthy(feature_supported) THEN lower_strip(feature_supported)
                ELSE << >>,
                lower_strip(StrV(site.Gen)))
    THEN [node_specific |-> << >>, general |-> << >>, returned |-> "False"]
    ELSE [node_specific |->
              decisions_of("node_specific", rules_of(lower_strip(activation_rule)),
                           ntype, site),
          general |->
              decisions_of("general", rules_of(lower_strip(activation_rule)),
                           ntype, site),
          returned |->
              final_decision(
                  decisions_of("node_specific",
                               rules_of(lower_strip(activation_rule)),
                               ntype, site),
                  decisions_of("general", rules_of(lower_strip(activation_rule)),
                               ntype, site))]

\* actual_feature_state == n for n = 0 or 1, on a cell of the export
feature_state_equals(actual_feature_state, n) ==
    CASE actual_feature_state.k = "num" ->
            actual_feature_state.s \in { NatToStr(n), NatToStr(n) \o <<".","0">> }
      [] actual_feature_state.k = "bool" ->
            actual_feature_state = BoolV(n = 1)
      [] OTHER -> FALSE

\* validate_feature_state that takes every state but 1 for inactive.
validate_feature_state_not_one(expected, actual_feature_state) ==
    IF expected = "None" THEN "UNKNOWN"
    ELSE IF expected = "True" /\ feature_state_equals(actual_feature_state, 1)
    THEN "CORRECT"
    ELSE IF expected = "False" /\ ~feature_state_equals(actual_feature_state, 1)
    THEN "CORRECT"
    ELSE "INCORRECT"

\* Lines 291-300 of validate_feature_state, on the value expected that
\* should_feature_be_active returned.
validate_feature_state(expected, actual_feature_state) ==
    IF expected = "None" THEN "UNKNOWN"
    ELSE IF expected = "True" /\ feature_state_equals(actual_feature_state, 1)
    THEN "CORRECT"
    ELSE IF expected = "False" /\ feature_state_equals(actual_feature_state, 0)
    THEN "CORRECT"
    ELSE "INCORRECT"

\* The categories load_nename_categories of licence.py builds, with the
\* column of the dual-co sites.
NoSite == [Type |-> << >>, Cell |-> << >>, Gen |-> << >>, DualCo |-> << >>]

licence_categories ==
    ( <<"X","1">> :> [Type |-> <<"Z","T","D">>, Cell |-> <<"T","D","D">>, Gen |-> <<"G","e","n","3">>,
                 DualCo |-> <<"O","u","i">>] )
    @@ ( <<"G","2">> :> [Type |-> <<"C","R","Z">>, Cell |-> <<"T","D","D"," ","+"," ","F","D","D">>, Gen |-> <<"G","e","n","2">>,
                    DualCo |-> << >>] )
    @@ ( <<"E","3">> :> [Type |-> << >>, Cell |-> <<"F","D","D">>, Gen |-> <<"G","e","n","4">>,
                    DualCo |-> << >>] )
    @@ ( <<"Z","9">> :> [Type |-> <<"C","R","Z">>, Cell |-> <<"T","D","D">>, Gen |-> <<"G","e","n","2">>,
                    DualCo |-> << >>] )

\* nename_categories.get(str(site_name).strip(), {}) and the .get(.., '')
\* of its fields
site_of(site_name) ==
    IF Strip(PyStr(site_name)) \in DOMAIN licence_categories
    THEN licence_categories[Strip(PyStr(site_name))]
    ELSE NoSite

\* Rows of the export per feature
MaxLicenceRows == 2

\* Cells of the column "A activer ou pas pour Bytel"
ActivationRules ==
    { NoneV, StrV(<< >>),
      StrV(<<"A"," ","a","c","t","i","v","e","r"," ","s","u","r"," ","s","i","t","e"," ","X">>),
      StrV(<<"A"," ","a","c","t","i","v","e","r"," ","s","u","r"," ","s","i","t","e"," ","X","."," ","N","e"," ","p","a","s"," ","a","c","t","i","v","e","r">>),
      StrV(<<"N","e"," ","p","a","s"," ","a","c","t","i","v","e","r","."," ","A"," ","a","c","t","i","v","e","r"," ","s","u","r"," ","s","i","t","e"," ","X">>),
      StrV(<<"A"," ","i","n","s","t","a","l","l","e","r","."," ","N","e"," ","p","a","s"," ","a","c","t","i","v","e","r"," ","p","a","r"," ","d","é","f","a","u","t">>),
      StrV(<<"N","e"," ","p","a","s"," ","a","c","t","i","v","e","r"," ","s","u","r"," ","s","i","t","e"," ","G","."," ","A"," ","a","c","t","i","v","e","r"," ","p","o","u","r"," ","t","e","s","t","s">>),
      StrV(<<"A"," ","a","c","t","i","v","e","r"," ","e","n"," ","C","R","Z">>),
      StrV(<<"S","i","t","e","s"," ","é","l","i","g","i","b","l","e","s"," ","à"," ","l","a"," ","d","u","a","l","-","c","o">>),
      StrV(<<"N","/","A">>) }

\* Cells of the column "BB / DU supported"
SupportedHardware ==
    { NoneV, StrV(<<"G","e","n","3","+">>), StrV(<<"G","e","n","3">>), StrV(<<"G","e","n","4">>), StrV(<<"G","e","n","2">>) }

LicenceRows ==
    [NeName : { StrV(<<"X","1">>), StrV(<<"G","2">>), StrV(<<"E","3">>), StrV(<<"Z","9">>) },
     featureState : { NumV(<<"1">>), NumV(<<"0">>), NumV(<<"2">>), NaNV }]

\* A feature and its rows of the export are at hand (line 452).
InitLicence ==
    /\ opc = "row"
    /\ feature_info \in [activate : ActivationRules, supported : SupportedHardware]
    /\ \E n \in 1..MaxLicenceRows : matching_rows \in [1..n -> LicenceRows]
    /\ row_number = 0
    /\ node_specific_decisions = << >>
    /\ general_decisions = << >>
    /\ expected_active = "unset"
    /\ validation_status = "unset"
    /\ output_data = << >>
    /\ incorrect_data = << >>
    /\ incorrect_entries = [written |-> FALSE, rows |-> << >>]
    /\ AvailabilityIdle
    /\ ExtractorIdle
    /\ CompareIdle
    /\ ValidateIdle
    /\ RunIdle
    /\ HelpersIdle

\* Lines 455-464 and 289: the loop takes the next row, and
\* validate_feature_state calls should_feature_be_active on it.
ShouldFeatureBeActive ==
    /\ opc = "row"
    /\ row_number < Len(matching_rows)
    /\ row_number' = row_number + 1
    /\ \E call \in { should_feature_be_active(
                        feature_info.activate,
                        licence_get_node_type(matching_rows[row_number + 1].NeName),
                        feature_info.supported,
                        site_of(matching_rows[row_number + 1].NeName)) } :
          /\ node_specific_decisions' = call.node_specific
          /\ general_decisions' = call.general
          /\ expected_active' = call.returned
    /\ opc' = "label"
    /\ UNCHANGED << feature_info, matching_rows, validation_status,
                    output_data, incorrect_data, incorrect_entries,
                    beside_licence >>

\* The columns of an output row the checks read, of the sixteen there are.
licence_output_row(row, status) ==
    [NeName |-> row.NeName, featureState |-> row.featureState,
     NodeType |-> licence_get_node_type(row.NeName),
     Gen |-> site_of(row.NeName).Gen, Validation |-> status]

\* Lines 291-300 and 479-501: the label of the row, the output row, and
\* its copy in incorrect_data when the label is INCORRECT.
ValidateFeatureState ==
    /\ opc = "label"
    /\ \E status \in { validate_feature_state(
                          expected_active,
                          matching_rows[row_number].featureState) } :
          /\ validation_status' = status
          /\ output_data' =
                Append(output_data,
                       licence_output_row(matching_rows[row_number], status))
          /\ incorrect_data' =
                IF status = "INCORRECT"
                THEN Append(incorrect_data,
                            licence_output_row(matching_rows[row_number], status))
                ELSE incorrect_data
    /\ opc' = "row"
    /\ UNCHANGED << feature_info, matching_rows, row_number,
                    node_specific_decisions, general_decisions,
                    expected_active, incorrect_entries, beside_licence >>

\* Lines 573-594: the sheet "Incorrect_Entries" takes the rows of
\* incorrect_data, or a note when there is none.
WriteIncorrectEntries ==
    /\ opc = "row"
    /\ row_number = Len(matching_rows)
    /\ incorrect_entries' = [written |-> TRUE, rows |-> incorrect_data]
    /\ opc' = "written"
    /\ UNCHANGED << feature_info, matching_rows, row_number,
                    node_specific_decisions, general_decisions,
                    expected_active, validation_status, output_data,
                    incorrect_data, beside_licence >>

NextLicence ==
    \/ ShouldFeatureBeActive
    \/ ValidateFeatureState
    \/ WriteIncorrectEntries

SpecLicence == InitLicence /\ [][NextLicence]_vars

(***************************************************************************)
(* Properties of the licence check (SpecLicence)                           *)
(***************************************************************************)
\* should_feature_be_active has returned for the row at hand.
Returned == opc = "label"

TheRow == matching_rows[row_number]

LastOf(decisions) == IF decisions[Len(decisions)] THEN "True" ELSE "False"

\* The precedence of the rule matcher on the decisions its sentences made.
ByPrecedence ==
    IF node_specific_decisions # << >> THEN LastOf(node_specific_decisions)
    ELSE IF general_decisions # << >> THEN LastOf(general_decisions)
    ELSE "None"

\* C26 as stated: should_feature_be_active returns the last node-specific
\* decision when a sentence made one, otherwise the last general decision,
\* otherwise None.
C26_PrecedenceAsStated == Returned => expected_active = ByPrecedence

\* The call went past the test of line 123 and the generation check of
\* lines 133-146 returned False before any sentence was read.
StoppedByGeneration ==
    /\ Truthy(feature_info.activate)
    /\ Truthy(licence_get_node_type(TheRow.NeName))
    /\ gen_check_returns_false(
          IF Truthy(feature_info.supported)
          THEN lower_strip(feature_info.supported) ELSE << >>,
          lower_strip(StrV(site_of(TheRow.NeName).Gen)))

NodeX1 == TheRow.NeName = StrV(<<"X","1">>)

BothOrders ==
    { StrV(<<"A"," ","a","c","t","i","v","e","r"," ","s","u","r"," ","s","i","t","e"," ","X","."," ","N","e"," ","p","a","s"," ","a","c","t","i","v","e","r">>),
      StrV(<<"N","e"," ","p","a","s"," ","a","c","t","i","v","e","r","."," ","A"," ","a","c","t","i","v","e","r"," ","s","u","r"," ","s","i","t","e"," ","X">>) }

\* C26: unless the generation check has returned False, in which case no
\* sentence is read and no decision is made, should_feature_be_active
\* returns the last node-specific decision when a sentence made one,
\* otherwise the last general decision, otherwise None; a node-specific
\* activation wins over a general deactivation written before or after it.
C26_PrecedenceAfterGeneration ==
    Returned =>
        /\ IF StoppedByGeneration
           THEN /\ expected_active = "False"
                /\ node_specific_decisions = << >>
                /\ general_decisions = << >>
           ELSE expected_active = ByPrecedence
        /\ (feature_info.activate \in BothOrders /\ NodeX1 /\ ~StoppedByGeneration)
              => /\ node_specific_decisions = << TRUE >>
                 /\ general_decisions = << FALSE >>
                 /\ expected_active = "True"

\* A node-specific activation followed by a general deactivation, on a
\* node X of a compatible generation.
C26_NodeSpecificBeforeGeneral ==
    /\ Returned
    /\ feature_info.activate = StrV(<<"A"," ","a","c","t","i","v","e","r"," ","s","u","r"," ","s","i","t","e"," ","X","."," ","N","e"," ","p","a","s"," ","a","c","t","i","v","e","r">>)
    /\ feature_info.supported = StrV(<<"G","e","n","3","+">>)
    /\ NodeX1
    /\ expected_active = "True"

\* The example of the claim: the feature supports Gen3+ only and the site
\* is of the second generation.
Gen3PlusOnGen2 ==
    /\ feature_info.supported = StrV(<<"G","e","n","3","+">>)
    /\ site_of(TheRow.NeName).Gen = <<"G","e","n","2">>

\* C27: when the hardware the feature supports and the generation of the
\* site are incompatible, should_feature_be_active returns False whatever
\* the activation rule and the node letter are, an empty rule and a node
\* whose name starts with none of E, X and G included.
C27_GenerationOverridesEverything ==
    (Returned /\ Gen3PlusOnGen2) => expected_active = "False"

\* The row validate_feature_state has labelled last; expected_active is
\* what should_feature_be_active returned on it.
Labelled == opc \in {"row", "written"} /\ output_data # << >>

LastRow == output_data[Len(output_data)]

IsOne(row) == row.featureState \in { NumV(<<"1">>) }

IsZero(row) == row.featureState \in { NumV(<<"0">>) }

Incorrect(rows) == SelectSeq(rows, LAMBDA row : row.Validation = "INCORRECT")

\* C28: an output row is labelled UNKNOWN exactly when
\* should_feature_be_active returned None, CORRECT exactly when it returned
\* True and featureState is 1 or False and featureState is 0, and
\* INCORRECT in every other case; incorrect_data and the sheet
\* Incorrect_Entries hold exactly the output rows labelled INCORRECT, in
\* their order.
C28_LabelsAndIncorrectEntries ==
    /\ Labelled =>
          /\ LastRow.Validation = validation_status
          /\ LastRow.Validation \in {"UNKNOWN", "CORRECT", "INCORRECT"}
          /\ LastRow.Validation = "UNKNOWN" <=> expected_active = "None"
          /\ LastRow.Validation = "CORRECT" <=>
                \/ expected_active = "True" /\ IsOne(LastRow)
                \/ expected_active = "False" /\ IsZero(LastRow)
    /\ Len(output_data) = IF opc = "label" THEN row_number - 1 ELSE row_number
    /\ incorrect_data = Incorrect(output_data)
    /\ incorrect_entries.written => incorrect_entries.rows = Incorrect(output_data)

\* A feature to leave inactive, found with a featureState of 2 on one node
\* and of 0 on another: the sheet holds the first row only.
C28_OneIncorrectOfTwo ==
    /\ incorrect_entries.written
    /\ Len(output_data) = 2
    /\ output_data[1].featureState = NumV(<<"2">>)
    /\ output_data[1].Validation = "INCORRECT"
    /\ output_data[2].featureState = NumV(<<"0">>)
    /\ output_data[2].Validation = "CORRECT"
    /\ expected_active = "False"
    /\ incorrect_entries.rows = << output_data[1] >>

(***************************************************************************)
(* NRCELL_Extractor.py: extract_parameters (lines 16-67)                   *)
(***************************************************************************)
\* Lines of the LAB file per run
MaxLines == 4

\* Lines of a LAB file: section headers at the start of the line and after
\* a proxy number, parameter lines, a struct member, and the lines the
\* scan skips.
LabLines ==
    { <<"N","R","C","e","l","l","C","U","=","1">>, <<"N","R","C","e","l","l","D","U","=","1">>, <<"7"," ","N","R","C","e","l","l","D","U","=","2">>,
      <<"p","M","a","x"," ","1","0">>, <<"q","H","y","s","t"," ","4">>, <<" ",">",">",">"," ","1",".","p","l","m","n","I","d"," ","="," ","2","0","8">>,
      << >>, <<"=","=","=","=","=">>, <<"X","1"," ","n","o","d","e">> }

SectionTypes == { <<"N","R","C","e","l","l","C","U">>, <<"N","R","C","e","l","l","D","U">> }

\* The file is open; no line has been read (lines 17-23).
InitExtractor ==
    /\ opc = "scan"
    /\ \E n \in 1..MaxLines : lab_lines \in [1..n -> LabLines]
    /\ section_type \in SectionTypes
    /\ line_number = 0
    /\ found_section = FALSE
    /\ parameter_names = << >>
    /\ current_parent_parameter = << >>
    /\ AvailabilityIdle
    /\ LicenceIdle
    /\ CompareIdle
    /\ ValidateIdle
    /\ RunIdle
    /\ HelpersIdle

\* Lines 35-39: the line starts the section of the other cell type.
starts_other_section(stripped_line, ctype) ==
    \/ StartsWith(stripped_line, <<"N","R","C","e","l","l","D","U","=">>) /\ ctype # <<"N","R","C","e","l","l","D","U">>
    \/ StartsWith(stripped_line, <<"N","R","C","e","l","l","C","U","=">>) /\ ctype # <<"N","R","C","e","l","l","C","U">>

\* Lines 41-47: blank lines, separators, and lines led by a proxy number
\* or by a node name.
skipped_line(stripped_line) ==
    \/ stripped_line = << >>
    \/ \E lead \in { <<"=","=","=">>, <<"T","o","t","a","l",":">>, <<"I","N","F","O",":">> } : StartsWith(stripped_line, lead)
    \/ IsDigit(stripped_line[1])
    \/ stripped_line[1] \in {"X", "G", "E"}

\* Lines 49-54: the pair a ">>>" line adds, if it has a member after a dot.
sub_parameter_pairs(stripped_line, parent) ==
    IF Len(SplitAt(stripped_line, {"."})) > 1
    THEN << [parent |-> parent,
             name |-> Strip(SplitAt(SplitAt(stripped_line, {"."})[2], {"="})[1])] >>
    ELSE << >>

\* Lines 25-57: one pass of the loop over the lines of the file.
ScanLine ==
    /\ opc = "scan"
    /\ line_number < Len(lab_lines)
    /\ line_number' = line_number + 1
    /\ LET line == lab_lines[line_number + 1]
           stripped_line == Strip(line)
       IN  IF Contains(line, section_type \o <<"=">>)
           THEN /\ found_section' = TRUE
                /\ UNCHANGED << opc, parameter_names, current_parent_parameter >>
           ELSE IF ~found_section
           THEN UNCHANGED << opc, found_section, parameter_names,
                             current_parent_parameter >>
           ELSE IF starts_other_section(stripped_line, section_type)
           THEN /\ opc' = "extracted"
                /\ UNCHANGED << found_section, parameter_names,
                                current_parent_parameter >>
           ELSE IF skipped_line(stripped_line)
           THEN UNCHANGED << opc, found_section, parameter_names,
                             current_parent_parameter >>
           ELSE IF StartsWith(stripped_line, <<">", ">", ">">>)
           THEN /\ parameter_names' =
                      parameter_names
                      \o sub_parameter_pairs(stripped_line,
                                             StrV(current_parent_parameter))
                /\ UNCHANGED << opc, found_section, current_parent_parameter >>
           ELSE /\ current_parent_parameter' = SplitWords(stripped_line)[1]
                /\ parameter_names' =
                      Append(parameter_names,
                             [parent |-> NoneV,
                              name |-> SplitWords(stripped_line)[1]])
                /\ UNCHANGED << opc, found_section >>
    /\ UNCHANGED << lab_lines, section_type, beside_extractor >>

\* The loop ends with the file.
EndOfFile ==
    /\ opc = "scan"
    /\ line_number = Len(lab_lines)
    /\ opc' = "extracted"
    /\ UNCHANGED << evars, beside_extractor >>

NextExtractor == ScanLine \/ EndOfFile

SpecExtractor == InitExtractor /\ [][NextExtractor]_vars

(***************************************************************************)
(* Properties of the extraction (SpecExtractor)                            *)
(***************************************************************************)
OtherType == CHOOSE other \in SectionTypes : other # section_type

\* Line i opens a section of cell type ctype: it contains "ctype=", the
\* test by which extract_parameters(file, ctype) finds its section.
OpensSection(i, ctype) == Contains(lab_lines[i], ctype \o <<"=">>)

\* Line i lies in a section of the other cell type: after a line that
\* opens one, with no line opening the scanned type's section since.
InOtherSection(i) ==
    \E j \in 1..(i - 1) :
        /\ OpensSection(j, OtherType)
        /\ \A k \in j..i : ~OpensSection(k, section_type)

\* C29: extract_parameters(file, T) attributes to T no parameter of the
\* other cell type's section: a line that lies in a section of the other
\* cell type adds nothing to parameter_names.
C29_NothingFromOtherSection ==
    [][Len(parameter_names') > Len(parameter_names)
          => ~InOtherSection(line_number')]_vars

(***************************************************************************)
(* compare_parameters.py: the comparison and the update in place           *)
(* (lines 106-225)                                                         *)
(***************************************************************************)
\* Rows of the sheet of the OLD workbook
MaxSheetRows == 2

PARAM_COL_NAME == "Parameter"

\* Two of the eleven columns of COLUMNS_TO_COMPARE (lines 14-16)
COLUMNS_TO_COMPARE == << "lock / unlock", "Commentaire" >>

\* A row of a sheet: its cells by column name.
sheet_row(parameter, lock, comment) ==
    [c \in {PARAM_COL_NAME, "lock / unlock", "Commentaire"} |->
        CASE c = PARAM_COL_NAME -> parameter
          [] c = "lock / unlock" -> lock
          [] OTHER -> comment]

ComparedNames == { <<"p","M","a","x">>, <<"q","H","y","s","t">> }

\* Rows of the OLD sheet: a parameter may stand on two rows, and a cell of
\* the first column may be empty.
OldRows ==
    { sheet_row(StrV(p), lock, StrV(<<"1">>)) :
        p \in ComparedNames, lock \in { NaNV, StrV(<<"1">>) } }

\* The sheet of the UPDATED workbook: a row for each parameter.
NewSheets ==
    { << sheet_row(StrV(<<"p","M","a","x">>), lock, comment),
         sheet_row(StrV(<<"q","H","y","s","t">>), StrV(<<"1">>), comment) >> :
        lock \in { StrV(<<"1">>), StrV(<<"2">>) },
        comment \in { StrV(<<"1">>), StrV(<<"2">>) } }

\* Both sheets and the parameter list are read (lines 70-113).
InitCompare ==
    /\ opc = "compare"
    /\ \E n \in 1..MaxSheetRows : old_df \in [1..n -> OldRows]
    /\ new_df \in NewSheets
    /\ parameters \in { << <<"p","M","a","x">> >>, << <<"p","M","a","x">>, <<" ","q","H","y","s","t">> >> }
    /\ compared = 0
    /\ differences = << >>
    /\ ws = old_df
    /\ ws_row = 0
    /\ AvailabilityIdle
    /\ LicenceIdle
    /\ ExtractorIdle
    /\ ValidateIdle
    /\ RunIdle
    /\ HelpersIdle

\* Lines 106-110: the index of a lookup, the trimmed text of the first
\* column.
lookup_key(row) == Strip(PyStr(row[PARAM_COL_NAME]))

in_lookup(p, df) == \E i \in DOMAIN df : lookup_key(df[i]) = p

\* lookup.at[p, col], the first of the rows when p stands on several
\* (lines 128-133)
lookup_at(df, p, col) ==
    df[CHOOSE i \in DOMAIN df :
          /\ lookup_key(df[i]) = p
          /\ \A j \in 1..(i - 1) : lookup_key(df[j]) # p][col]

\* Lines 134-137: the two values count as different.
values_differ(old_val, new_val) ==
    /\ ~(IsNaN(old_val) /\ IsNaN(new_val))
    /\ \/ IsNaN(old_val) /\ ~IsNaN(new_val)
       \/ IsNaN(new_val) /\ ~IsNaN(old_val)
       \/ old_val # new_val

\* Lines 122-143: the differences of the parameter p, column by column.
differences_of(p) ==
    LET per_column ==
          [k \in DOMAIN COLUMNS_TO_COMPARE |->
              [Parameter |-> p, Column |-> COLUMNS_TO_COMPARE[k],
               OldValue |-> lookup_at(old_df, p, COLUMNS_TO_COMPARE[k]),
               NewValue |-> lookup_at(new_df, p, COLUMNS_TO_COMPARE[k])]]
    IN  SelectSeq(per_column,
                  LAMBDA d : values_differ(d.OldValue, d.NewValue))

\* Lines 115-143: one pass of the loop over the parameter list; a
\* parameter missing in a sheet is set aside.
CompareParameter ==
    /\ opc = "compare"
    /\ compared < Len(parameters)
    /\ compared' = compared + 1
    /\ LET p == Strip(parameters[compared + 1])
       IN  differences' =
              IF in_lookup(p, old_df) /\ in_lookup(p, new_df)
              THEN differences \o differences_of(p)
              ELSE differences
    /\ UNCHANGED << opc, old_df, new_df, parameters, ws, ws_row,
                    beside_compare >>

\* Lines 145-201: the summary is printed and the workbook is loaded.
LoadWorkbook ==
    /\ opc = "compare"
    /\ compared = Len(parameters)
    /\ opc' = "update"
    /\ UNCHANGED << cvars, beside_compare >>

\* The differences recorded for the parameter of a row, in their order: the
\* loop of lines 211-222 writes the first and leaves.
matching_differences(param_value_str) ==
    SelectSeq(differences,
              LAMBDA d : Strip(d.Parameter) = param_value_str)

\* Lines 204-221: one pass of the loop over the rows of the sheet.
UpdateRow ==
    /\ opc = "update"
    /\ ws_row < Len(ws)
    /\ ws_row' = ws_row + 1
    /\ LET r == ws_row + 1
           matches == matching_differences(Strip(PyStr(ws[r][PARAM_COL_NAME])))
       IN  ws' =
              IF ws[r][PARAM_COL_NAME] # NoneV /\ matches # << >>
              THEN [ws EXCEPT ![r][matches[1].Column] = matches[1].NewValue]
              ELSE ws
    /\ UNCHANGED << opc, old_df, new_df, parameters, compared, differences,
                    beside_compare >>

\* Lines 223-225: the workbook is saved in place.
SaveInPlace ==
    /\ opc = "update"
    /\ ws_row = Len(ws)
    /\ opc' = "saved"
    /\ UNCHANGED << cvars, beside_compare >>

NextCompare == CompareParameter \/ LoadWorkbook \/ UpdateRow \/ SaveInPlace

SpecCompare == InitCompare /\ [][NextCompare]_vars

(***************************************************************************)
(* Properties of the update in place (SpecCompare)                         *)
(***************************************************************************)
\* The difference d names the cell of row i in column col.
Names(d, i, col) == Strip(d.Parameter) = lookup_key(old_df[i]) /\ d.Column = col

\* C30: after the update of the OLD workbook in place, every cell a
\* recorded difference names holds the new value, also when a parameter
\* differs in several columns, and every other cell is as it was.
C30_EveryDifferenceWritten ==
    opc = "saved" =>
        \A i \in DOMAIN ws :
            \A k \in DOMAIN COLUMNS_TO_COMPARE :
                LET col == COLUMNS_TO_COMPARE[k]
                IN  /\ \A n \in DOMAIN differences :
                          Names(differences[n], i, col)
                              => ws[i][col] = differences[n].NewValue
                    /\ (\A n \in DOMAIN differences :
                            ~Names(differences[n], i, col))
                          => ws[i][col] = old_df[i][col]

====
